---- MODULE Spec2Model ----
(***************************************************************************)
(* Session lifecycle core of Selectron: the SessionRegistry                *)
(* (selectron/registry.py), the ProcessMonitor (selectron/monitor.py),     *)
(* SessionDiscovery and PortConflictHandler (selectron/discovery.py) and   *)
(* the ElectronDriverManager start/stop/detach operations                  *)
(* (selectron/driver.py).                                                  *)
(*                                                                         *)
(* The specifications share the variables:                                 *)
(*   SpecRegistry  the registry's public operations, called with any       *)
(*                 session (a reused session_id included), the file and    *)
(*                 a restart;                                              *)
(*   Spec          the driver manager's operations, each handler one       *)
(*                 step, with the monitor's poll cycle and the OS;         *)
(*   SpecRace      kill_session, detach_session or untrack_process and     *)
(*                 the poll cycles, statement by statement, on two         *)
(*                 threads;                                                *)
(*   SpecAlias     the registry and a caller assigning to returned         *)
(*                 sessions;                                               *)
(*   SpecDisk      the registry while writes of the file fail;             *)
(*   SpecLoad      the registry constructed over a damaged file;           *)
(*   SpecPersist   one _persist_to_disk statement by statement, with       *)
(*                 crashes;                                                *)
(*   SpecLock      register and update_status on two threads under the     *)
(*                 registry's RLock;                                       *)
(*   SpecMonitor   the monitor's start and stop, its thread's loop and an  *)
(*                 on_termination callback that raises;                    *)
(*   SpecLocking   the acquisitions of the monitor's Lock and of the       *)
(*                 registry's RLock by the poll cycle, a callback that     *)
(*                 calls back in, and a caller's thread;                   *)
(*   SpecCache     get_chrome_version and install with their caches;       *)
(*   SpecManagers  managers constructed with and without a registry and    *)
(*                 a monitor of their own, and the global monitor.         *)
(***************************************************************************)
EXTENDS Integers, Sequences, FiniteSets, TLC

\* ------------------------------------------------------------------ bounds
\* MaxId session ids (uuid4 values) and MaxPort debugging ports.
MaxId == 2
MaxPort == 2

Ids == 1..MaxId
Ports == 1..MaxPort

\* ------------------------------------------------------------ models.py
\* Session.pid is Optional[int]; None is written 0 here (no process has pid 0).
NoPid == 0

SessionOrigins == {"OURS", "EXTERNAL"}
SessionStatuses == {"RUNNING", "TERMINATED", "DETACHED", "UNKNOWN"}

\* Enum .value and Enum(value): the strings of the persisted file.
OriginValue(o) == IF o = "OURS" THEN "ours" ELSE "external"
StatusValue(s) ==
    CASE s = "RUNNING" -> "running"
      [] s = "TERMINATED" -> "terminated"
      [] s = "DETACHED" -> "detached"
      [] OTHER -> "unknown"
OriginOfValue(v) == IF v = "ours" THEN "OURS" ELSE "EXTERNAL"
StatusOfValue(v) ==
    CASE v = "running" -> "RUNNING"
      [] v = "terminated" -> "TERMINATED"
      [] v = "detached" -> "DETACHED"
      [] OTHER -> "UNKNOWN"

\* Session(...) as the two creators build it: status RUNNING, started_by
\* "selectron" (the driver) or "external" (discovery).
Session(id, port, origin, pid) ==
    [session_id |-> id, port |-> port, origin |-> origin,
     status |-> "RUNNING", pid |-> pid,
     started_by |-> IF origin = "OURS" THEN "selectron" ELSE "external"]

\* The absent result (Python None) of a lookup that returns Optional[Session].
NoSession ==
    [session_id |-> 0, port |-> 0, origin |-> "NONE", status |-> "NONE", pid |-> NoPid,
     started_by |-> "NONE"]

to_dict(s) ==
    [session_id |-> s.session_id, port |-> s.port, pid |-> s.pid,
     started_by |-> s.started_by,
     origin |-> OriginValue(s.origin), status |-> StatusValue(s.status)]

\* from_dict that reads no origin and takes the dataclass default.
from_dict_default_origin(d) ==
    [session_id |-> d.session_id, port |-> d.port, origin |-> "OURS",
     status |-> StatusOfValue(d.status), pid |-> d.pid, started_by |-> d.started_by]

from_dict(d) ==
    [session_id |-> d.session_id, port |-> d.port, origin |-> OriginOfValue(d.origin),
     status |-> StatusOfValue(d.status), pid |-> d.pid, started_by |-> d.started_by]

\* from_dict raises on an entry whose origin or status is not a value of its
\* enum (ValueError from SessionOrigin(...) or SessionStatus(...)).
from_dict_raises(d) ==
    \/ d.origin \notin {OriginValue(o) : o \in SessionOrigins}
    \/ d.status \notin {StatusValue(s) : s \in SessionStatuses}

\* ------------------------------------------------------------- variables
VARIABLES
    sessions,         \* SessionRegistry._sessions: session_id -> Session
    port_index,       \* SessionRegistry._port_index: port -> session_id
    disk,             \* the persisted session file
    diskOk,           \* environment: whether a write of the file succeeds
    external,         \* environment: port -> process listening on it, not ours
    spawned,          \* OS: the processes this system spawned, by the id made for them
    processes,        \* ProcessMonitor._processes: session_id -> process handle
    current_session,  \* ElectronDriverManager._current_session (session_id, 0: None)
    next_id,          \* the next uuid4 (session ids are never drawn twice)
    signalled,        \* the signals the last operation sent, [proc, sig]
    callbacks,        \* session_id -> the on_termination calls the last operation made
    notified,         \* history: the session ids on_termination was ever called for
    ret,              \* the last operation, its arguments and its result
    race,             \* SpecRace: where the two threads are, and their locals
    persist,          \* SpecPersist: where one _persist_to_disk is, and the temp file
    threads,          \* SpecLock: SessionRegistry._lock and the threads calling in
    monitor,          \* SpecMonitor: the monitor's thread, stop event and shutdown hooks
    locking,          \* SpecLocking: the monitor's Lock, the registry's RLock and the calls under way
    driver_cache,     \* SpecCache: the manager's _chrome_version and _driver_path (0: None), and the framework binary
    managers          \* SpecManagers: the managers constructed, the global monitor and each registry's sessions

regVars == <<sessions, port_index, disk>>
monVars == <<spawned, processes, current_session, next_id, notified>>
vars == <<sessions, port_index, disk, diskOk, external, spawned, processes,
          current_session, next_id, signalled, callbacks, notified, ret,
          race, persist, threads, monitor, locking, driver_cache, managers>>
stepVars == <<race, persist, threads, monitor, locking, driver_cache, managers>>

\* An operation that sends no signal and makes no callback.
NoCalls == [i \in Ids |-> <<>>]
NoLog == signalled' = {} /\ callbacks' = NoCalls

\* ------------------------------------------------------------- dict helpers
Put(f, k, v) == [x \in DOMAIN f \cup {k} |-> IF x = k THEN v ELSE f[x]]
Drop(f, k) == [x \in DOMAIN f \ {k} |-> f[x]]
Empty == [x \in {} |-> 0]

\* The registry's in-memory state and its file, as one value the operations map.
Reg == [sessions |-> sessions, port_index |-> port_index, disk |-> disk]

\* A process: one this system spawned ("ours", n the id made for its session) or
\* one it did not ("ext", n the port it listens on).
Proc(kind, n) == [kind |-> kind, n |-> n]

\* The ports some live process listens on.
Listening(ext, sp) ==
    DOMAIN ext \cup {sp[i].port : i \in {j \in DOMAIN sp : sp[j].state = "alive" /\ sp[j].listening}}

\* utils.is_port_in_use: a connect to the port succeeds.
is_port_in_use(p) == p \in Listening(external, spawned)

\* ----------------------------------------------------------- registry.py
\* The session file: absent, or bytes of some form. "object" is what
\* _persist_to_disk writes, a JSON object whose "sessions" is a list of
\* to_dict entries; the other forms are files something else left there.
FileForms == {"object", "torn", "unreadable", "undecodable", "array"}
File(entries) == [exists |-> TRUE, form |-> "object", sessions |-> entries]
NoFile == [exists |-> FALSE, form |-> "object", sessions |-> {}]

\* _persist_to_disk: the whole snapshot replaces the file, or (IOError) the
\* file stays as it was. The list of the file is kept as a set: its order is
\* the dict's insertion order and nothing reads it.
\* _persist_to_disk that gives up the in-memory state when the write fails.
_persist_to_disk_discard(r) ==
    IF diskOk
    THEN [r EXCEPT !.disk = File({to_dict(r.sessions[i]) : i \in DOMAIN r.sessions})]
    ELSE [r EXCEPT !.sessions = Empty, !.port_index = Empty]

_persist_to_disk(r) ==
    IF diskOk
    THEN [r EXCEPT !.disk = File({to_dict(r.sessions[i]) : i \in DOMAIN r.sessions})]
    ELSE r

\* register that stores the session before it looks at the index.
register_store_first(r, s) ==
    LET r1 == [r EXCEPT !.sessions = Put(@, s.session_id, s)]
    IN  IF s.port \in DOMAIN r.port_index
        THEN [r |-> r1, raised |-> TRUE]
        ELSE [r |-> _persist_to_disk([r1 EXCEPT !.port_index = Put(@, s.port, s.session_id)]),
              raised |-> FALSE]

\* register: [r |-> the registry afterwards, raised |-> PortConflictError raised]
register(r, s) ==
    IF s.port \in DOMAIN r.port_index
    THEN [r |-> r, raised |-> TRUE]
    ELSE [r |-> _persist_to_disk([r EXCEPT !.sessions = Put(@, s.session_id, s),
                                           !.port_index = Put(@, s.port, s.session_id)]),
          raised |-> FALSE]

unregister(r, id) ==
    IF id \in DOMAIN r.sessions
    THEN _persist_to_disk([r EXCEPT !.sessions = Drop(@, id),
                                    !.port_index = Drop(@, r.sessions[id].port)])
    ELSE r

get_by_id(r, id) == IF id \in DOMAIN r.sessions THEN r.sessions[id] ELSE NoSession

get_by_port(r, p) ==
    IF p \in DOMAIN r.port_index /\ r.port_index[p] \in DOMAIN r.sessions
    THEN r.sessions[r.port_index[p]]
    ELSE NoSession

\* update_status that retains a terminated session.
update_status_keep(r, id, status) ==
    IF id \in DOMAIN r.sessions
    THEN _persist_to_disk([r EXCEPT !.sessions[id].status = status])
    ELSE r

\* update_status: the registry afterwards; the call returns whether id was stored.
update_status(r, id, status) ==
    IF id \in DOMAIN r.sessions
    THEN LET r1 == [r EXCEPT !.sessions[id].status = status]
         IN  IF status = "TERMINATED" THEN unregister(r1, id) ELSE _persist_to_disk(r1)
    ELSE r

clear(r) == _persist_to_disk([r EXCEPT !.sessions = Empty, !.port_index = Empty])

\* _load_from_disk into a fresh registry: every entry of the file, status UNKNOWN.
\* Two entries of one port leave the later one in the index (here the larger id).
\* An entry from_dict raises on is skipped (except Exception, inside the loop).
\* A file json.load cannot parse ("torn": JSONDecodeError) or open cannot read
\* ("unreadable": IOError) loads nothing; load_error is what escapes instead.
_load_from_disk(d) ==
    LET loaded == {[from_dict(e) EXCEPT !.status = "UNKNOWN"] :
                       e \in {x \in d.sessions : ~from_dict_raises(x)}}
        ids == {s.session_id : s \in loaded}
        ports == {s.port : s \in loaded}
        byId(i) == CHOOSE s \in loaded : s.session_id = i
        last(p) == CHOOSE i \in ids :
                       /\ byId(i).port = p
                       /\ \A j \in ids : byId(j).port = p => j <= i
    IN  IF ~d.exists \/ d.form # "object"
        THEN [sessions |-> Empty, port_index |-> Empty, disk |-> d]
        ELSE [sessions |-> [i \in ids |-> byId(i)],
              port_index |-> [p \in ports |-> last(p)],
              disk |-> d]

\* What _load_from_disk, and so the constructor, raises on the file d: the
\* outer handler is `except (json.JSONDecodeError, IOError)`. Bytes that are
\* not UTF-8 make f.read() inside json.load raise UnicodeDecodeError; JSON that
\* parses to a list ("array") makes data.get raise AttributeError.
load_error(d) ==
    IF ~d.exists THEN "ok"
    ELSE CASE d.form = "undecodable" -> "UnicodeDecodeError"
           [] d.form = "array" -> "AttributeError"
           [] OTHER -> "ok"

\* verify_sessions: one pass over the snapshot of the stored ids.
RECURSIVE verify_from(_, _)
verify_from(r, ids) ==
    IF ids = {} THEN r
    ELSE LET id == CHOOSE i \in ids : \A j \in ids : i <= j
             r1 == IF id \in DOMAIN r.sessions /\ r.sessions[id].status = "UNKNOWN"
                   THEN IF is_port_in_use(r.sessions[id].port)
                        THEN [r EXCEPT !.sessions[id].status = "RUNNING"]
                        ELSE unregister([r EXCEPT !.sessions[id].status = "TERMINATED"], id)
                   ELSE r
         IN  verify_from(r1, ids \ {id})

\* verify_sessions that marks a session of a free port and keeps it stored.
verify_sessions_keep(r) ==
    [r EXCEPT !.sessions = [i \in DOMAIN r.sessions |->
        IF r.sessions[i].status = "UNKNOWN"
        THEN [r.sessions[i] EXCEPT !.status = IF is_port_in_use(r.sessions[i].port)
                                               THEN "RUNNING" ELSE "TERMINATED"]
        ELSE r.sessions[i]]]

verify_sessions(r) == verify_from(r, DOMAIN r.sessions)

\* The dict verify_sessions returns: session_id -> verified status.
verify_results(r) ==
    [i \in {j \in DOMAIN r.sessions : r.sessions[j].status = "UNKNOWN"} |->
        IF is_port_in_use(r.sessions[i].port) THEN "RUNNING" ELSE "TERMINATED"]

\* The statuses that dict holds, as one word.
verify_summary(res) ==
    LET st == {res[i] : i \in DOMAIN res}
    IN  CASE st = {} -> "empty"
          [] st = {"RUNNING"} -> "running"
          [] st = {"TERMINATED"} -> "terminated"
          [] OTHER -> "both"

\* ------------------------------------------------- registry: the operations
SetReg(r) ==
    /\ sessions' = r.sessions
    /\ port_index' = r.port_index
    /\ disk' = r.disk

\* ret: the last operation, the session id and port and the argument it was
\* called with where a property reads them, and what it returned or raised.
RetArg(op, id, port, result, arg) ==
    [op |-> op, id |-> id, port |-> port, result |-> result, arg |-> arg]
Ret(op, id, port, result) == RetArg(op, id, port, result, "")

\* A pid for a process this system spawned for session id.
PidOf(id) == 100 + id

Register(id, port, origin) ==
    LET s == Session(id, port, origin, IF origin = "OURS" THEN PidOf(id) ELSE NoPid)
        out == register(Reg, s)
    IN  /\ SetReg(out.r)
        /\ ret' = Ret("register", id, 0, IF out.raised THEN "PortConflictError" ELSE "ok")
        /\ NoLog
    /\ UNCHANGED <<diskOk, external, monVars, stepVars>>

Unregister(id) ==
    /\ SetReg(unregister(Reg, id))
    /\ ret' = Ret("unregister", 0, 0, IF id \in DOMAIN sessions THEN "session" ELSE "none")
    /\ NoLog
    /\ UNCHANGED <<diskOk, external, monVars, stepVars>>

UpdateStatus(id, status) ==
    /\ SetReg(update_status(Reg, id, status))
    /\ ret' = Ret("update_status", 0, 0, IF id \in DOMAIN sessions THEN "true" ELSE "false")
    /\ NoLog
    /\ UNCHANGED <<diskOk, external, monVars, stepVars>>

Clear ==
    /\ SetReg(clear(Reg))
    /\ ret' = Ret("clear", 0, 0, "ok")
    /\ NoLog
    /\ UNCHANGED <<diskOk, external, monVars, stepVars>>

Verify ==
    /\ SetReg(verify_sessions(Reg))
    /\ ret' = Ret("verify", 0, 0, verify_summary(verify_results(Reg)))
    /\ NoLog
    /\ UNCHANGED <<diskOk, external, monVars, stepVars>>

\* A new process constructs SessionRegistry over the same file.
Restart ==
    /\ SetReg(_load_from_disk(disk))
    /\ ret' = Ret("restart", 0, 0, load_error(disk))
    /\ NoLog
    /\ UNCHANGED <<diskOk, external, monVars, stepVars>>

\* ------------------------------------------------------------ environment
ExternalStart(p, devtools) ==
    /\ ~is_port_in_use(p)
    /\ external' = Put(external, p, [devtools |-> devtools])
    /\ ret' = Ret("env", 0, 0, "ok")
    /\ NoLog
    /\ UNCHANGED <<regVars, diskOk, monVars, stepVars>>

ExternalStop(p) ==
    /\ p \in DOMAIN external
    /\ external' = Drop(external, p)
    /\ ret' = Ret("env", 0, 0, "ok")
    /\ NoLog
    /\ UNCHANGED <<regVars, diskOk, monVars, stepVars>>

\* No persist is being followed step by step, and no thread is inside the registry.
NoPersist == [pc |-> "idle", data |-> {}, temp |-> "none", fileSynced |-> TRUE]
Threads == {1, 2}
NoThread ==
    [pc |-> "idle", op |-> "", id |-> 0, port |-> 0, status |-> "", rival |-> 0, res |-> ""]
NoThreads == [owner |-> 0, count |-> 0, t |-> [i \in Threads |-> NoThread]]

\* Both locks free and no call under way on either thread.
NoLocking ==
    [mon |-> 0, reg |-> [owner |-> 0, count |-> 0],
     prog |-> [i \in Threads |-> <<>>], in_cb |-> [i \in Threads |-> FALSE]]

\* ElectronDriverManager.__init__: nothing cached; framework is the binary on
\* disk (self.paths.electron_framework).
NoCache == [chrome_version |-> 0, driver_path |-> 0, framework |-> 1]

\* The managers a process may construct, and the registries: 1 is the global
\* one (get_registry()), 2 one the caller built.
Managers == {1, 2}
Registries == {1, 2}
GlobalRegistry == 1

\* No manager constructed, no global monitor (monitor._monitor is None).
\* global_monitor and mgr[m].monitor name the registry the monitor reconciles
\* against (0: none); stored[r]: the ids registry r stores, tracked: the ids
\* whose handle a monitor tracks, started[m]: those manager m started,
\* reconciled: those whose kill or exit a monitor has reconciled.
NoManagers ==
    [global_monitor |-> 0,
     mgr |-> [m \in Managers |-> [registry |-> 0, monitor |-> 0]],
     stored |-> [r \in Registries |-> {}],
     tracked |-> {},
     started |-> [m \in Managers |-> {}],
     reconciled |-> {}]

\* ProcessMonitor.__init__: no thread, the stop event clear, no handler
\* registered; atexit and signal_handlers count the registrations made.
NoMonitor ==
    [thread |-> "none", stop_event |-> FALSE, handlers_registered |-> FALSE,
     atexit |-> 0, signal_handlers |-> 0]

\* No race is being followed: both threads idle.
NoRace ==
    [kpc |-> "idle", kid |-> 0, kproc |-> Proc("none", 0), ksaw |-> FALSE, kres |-> "",
     ppc |-> "idle", pids |-> <<>>, pproc |-> Proc("none", 0), pcode |-> 0,
     psession |-> NoSession, pseen |-> {}, upd |-> <<>>]

\* ---------------------------------------------------------- SpecRegistry
InitRegistry ==
    /\ sessions = Empty
    /\ port_index = Empty
    /\ disk = NoFile
    /\ diskOk = TRUE
    /\ external = Empty
    /\ spawned = Empty
    /\ processes = Empty
    /\ current_session = 0
    /\ next_id = 1
    /\ signalled = {}
    /\ callbacks = NoCalls
    /\ notified = {}
    /\ ret = Ret("init", 0, 0, "ok")
    /\ race = NoRace
    /\ persist = NoPersist
    /\ threads = NoThreads
    /\ managers = NoManagers
    /\ driver_cache = NoCache
    /\ locking = NoLocking
    /\ monitor = NoMonitor

NextRegistry ==
    \/ \E id \in Ids, p \in Ports, o \in SessionOrigins : Register(id, p, o)
    \/ \E id \in Ids : Unregister(id)
    \/ \E id \in Ids, st \in SessionStatuses : UpdateStatus(id, st)
    \/ Clear
    \/ Verify
    \/ Restart
    \/ \E p \in Ports : ExternalStart(p, TRUE)
    \/ \E p \in Ports : ExternalStop(p)

SpecRegistry == InitRegistry /\ [][NextRegistry]_vars

\* ------------------------------------------------- properties of the registry
\* Every index entry names the stored session of that port.
IndexExact ==
    \A p \in DOMAIN port_index :
        port_index[p] \in DOMAIN sessions /\ sessions[port_index[p]].port = p

\* C2: in every reachable state no two distinct stored sessions have the same
\* port, and each port in the port index maps to a stored session.
C2_PortIndexOneStoredSession ==
    /\ \A i, j \in DOMAIN sessions : sessions[i].port = sessions[j].port => i = j
    /\ \A p \in DOMAIN port_index : port_index[p] \in DOMAIN sessions

\* C3: in every reachable state, register(session) on a port held by another
\* stored session raises PortConflictError and leaves the session map, the
\* port index and the file exactly as they were.
C3_ConflictLeavesRegistryUnchanged ==
    \A id \in Ids, p \in Ports, o \in SessionOrigins :
        (\E j \in DOMAIN sessions \ {id} : sessions[j].port = p) =>
            LET out == register(Reg, Session(id, p, o, IF o = "OURS" THEN PidOf(id) ELSE NoPid))
            IN  out.raised /\ out.r = Reg

\* A register has just raised for an id that is not stored, while every index
\* entry is the port of a stored session: the port was another session's.
C3_Witness ==
    /\ ret.op = "register" /\ ret.result = "PortConflictError"
    /\ ret.id \notin DOMAIN sessions
    /\ sessions # Empty /\ disk.exists
    /\ IndexExact

\* C8: update_status(id, TERMINATED) twice in a row on a stored id: after the
\* first call and after the second the id is in neither the session map nor
\* the port index (the model's update_status has no raising path: the code's
\* pops take a default).
C8_TerminatedTwiceLeavesAbsent ==
    \A id \in DOMAIN sessions :
        LET r1 == update_status(Reg, id, "TERMINATED")
            r2 == update_status(r1, id, "TERMINATED")
            absent(r) == /\ id \notin DOMAIN r.sessions
                         /\ \A p \in DOMAIN r.port_index : r.port_index[p] # id
        IN  absent(r1) /\ absent(r2)

\* C9: a registry constructed from the file holds exactly the sessions of the
\* running one, each with status UNKNOWN and every other attribute as it was.
C9_ReloadYieldsSameSessions ==
    _load_from_disk(disk).sessions =
        [i \in DOMAIN sessions |-> [sessions[i] EXCEPT !.status = "UNKNOWN"]]

\* A restart has just loaded sessions of both origins.
C9_Witness ==
    /\ ret.op = "restart"
    /\ \E i, j \in DOMAIN sessions :
          /\ sessions[i].origin = "OURS" /\ sessions[i].pid # NoPid
          /\ sessions[j].origin = "EXTERNAL"
          /\ sessions[i].status = "UNKNOWN" /\ sessions[j].status = "UNKNOWN"

\* C10: in every reachable state, whichever ports are then occupied,
\* verify_sessions sets every UNKNOWN session of an occupied port RUNNING,
\* removes every UNKNOWN session of a free port and reports it TERMINATED,
\* leaves no stored session UNKNOWN and leaves every other session as it was.
C10_VerifySettlesUnknown ==
    LET after == verify_sessions(Reg).sessions
        results == verify_results(Reg)
    IN  /\ \A id \in DOMAIN sessions :
              IF sessions[id].status # "UNKNOWN"
              THEN /\ id \in DOMAIN after /\ after[id] = sessions[id]
                   /\ id \notin DOMAIN results
              ELSE IF is_port_in_use(sessions[id].port)
              THEN /\ id \in DOMAIN after
                   /\ after[id] = [sessions[id] EXCEPT !.status = "RUNNING"]
                   /\ results[id] = "RUNNING"
              ELSE /\ id \notin DOMAIN after
                   /\ results[id] = "TERMINATED"
        /\ DOMAIN after \subseteq DOMAIN sessions
        /\ \A id \in DOMAIN after : after[id].status # "UNKNOWN"

\* A verify has just found sessions of both kinds: one it set RUNNING is stored.
C10_Witness ==
    /\ ret.op = "verify" /\ ret.result = "both"
    /\ \E id \in DOMAIN sessions :
          sessions[id].status = "RUNNING" /\ is_port_in_use(sessions[id].port)

\* C11: in every state between registry operations no stored session has
\* status TERMINATED; update_status(id, TERMINATED) on a stored id removes the
\* session and the index entry of its port, and update_status to any other
\* status keeps the session stored, on the same port, with the new status and
\* leaves the port index as it was.
C11_TerminatedNeverStored ==
    /\ \A i \in DOMAIN sessions : sessions[i].status # "TERMINATED"
    /\ \A id \in DOMAIN sessions, st \in SessionStatuses :
          LET r == update_status(Reg, id, st)
          IN  IF st = "TERMINATED"
              THEN /\ id \notin DOMAIN r.sessions
                   /\ sessions[id].port \notin DOMAIN r.port_index
              ELSE /\ r.sessions = [sessions EXCEPT ![id].status = st]
                   /\ r.port_index = port_index

\* An update_status has just succeeded and a DETACHED session is stored and
\* indexed on its port.
C11_Witness ==
    /\ ret.op = "update_status" /\ ret.result = "true"
    /\ \E i \in DOMAIN sessions :
          /\ sessions[i].status = "DETACHED"
          /\ sessions[i].port \in DOMAIN port_index
          /\ port_index[sessions[i].port] = i

\* C13: register raises PortConflictError only when the port is indexed to a
\* different session id; registering a stored session again, on the port
\* indexed to its own id, does not raise and leaves one entry for it in the
\* session map and one in the port index.
C13_SameSessionReregisters ==
    /\ \A id \in Ids, p \in Ports, o \in SessionOrigins :
          register(Reg, Session(id, p, o, IF o = "OURS" THEN PidOf(id) ELSE NoPid)).raised =>
              p \in DOMAIN port_index /\ port_index[p] # id
    /\ \A id \in DOMAIN sessions :
          (sessions[id].port \in DOMAIN port_index /\ port_index[sessions[id].port] = id) =>
              LET out == register(Reg, sessions[id])
              IN  /\ ~out.raised
                  /\ id \in DOMAIN out.r.sessions
                  /\ Cardinality({q \in DOMAIN out.r.port_index : out.r.port_index[q] = id}) = 1

\* C34: in every reachable state of the registry the port index and the
\* session map agree: the indexed ports are exactly the ports of the stored
\* sessions, and each stored session's port is indexed to its session_id.
C34_PortIndexAgreesWithSessions ==
    /\ DOMAIN port_index = {sessions[sid].port : sid \in DOMAIN sessions}
    /\ \A sid \in DOMAIN sessions : port_index[sessions[sid].port] = sid

\* -------------------------------------------------------------- SpecAlias
\* The registry's operations and a caller that assigns to what a query gave it.
\*
\* get_by_id returns self._sessions.get(session_id), get_by_port the same
\* object looked up through the index, and all_sessions and the filtered
\* lists a new list of the stored objects: the Session a caller receives is
\* the stored one, so an assignment to one of its fields is an assignment to
\* the stored session. Nothing is persisted by it. A change to a returned
\* list (append, remove) reaches no registry state: the list is new.
assign_status(r, id, status) ==
    IF id \in DOMAIN r.sessions THEN [r EXCEPT !.sessions[id].status = status] ELSE r

assign_port(r, id, p) ==
    IF id \in DOMAIN r.sessions THEN [r EXCEPT !.sessions[id].port = p] ELSE r

\* s = registry.get_by_id(id); s.status = status
CallerSetsStatus(id, status) ==
    /\ id \in DOMAIN sessions
    /\ SetReg(assign_status(Reg, id, status))
    /\ ret' = Ret("caller", id, 0, "status")
    /\ NoLog
    /\ UNCHANGED <<diskOk, external, monVars, stepVars>>

\* s = registry.get_by_port(port); s.port = p
CallerSetsPort(port, p) ==
    /\ get_by_port(Reg, port) # NoSession
    /\ SetReg(assign_port(Reg, get_by_port(Reg, port).session_id, p))
    /\ ret' = Ret("caller", get_by_port(Reg, port).session_id, 0, "port")
    /\ NoLog
    /\ UNCHANGED <<diskOk, external, monVars, stepVars>>

NextAlias ==
    \/ \E id \in Ids, p \in Ports, o \in SessionOrigins : Register(id, p, o)
    \/ \E id \in Ids : Unregister(id)
    \/ \E id \in Ids, st \in SessionStatuses : CallerSetsStatus(id, st)
    \/ \E port, p \in Ports : CallerSetsPort(port, p)

SpecAlias == InitRegistry /\ [][NextAlias]_vars

\* C12: a caller's assignment to a session a query returned (its status, its
\* port) changes neither what get_by_id and get_by_port return afterwards nor
\* what the next persist writes.
C12_ReturnedSessionsAreCopies ==
    [][ret'.op = "caller" =>
          /\ \A id \in Ids : get_by_id(Reg', id) = get_by_id(Reg, id)
          /\ \A p \in Ports : get_by_port(Reg', p) = get_by_port(Reg, p)
          /\ _persist_to_disk(Reg').disk = _persist_to_disk(Reg).disk]_vars

\* --------------------------------------------------------------- SpecDisk
\* The registry's mutating operations while writes of the file fail and
\* succeed again: open, flock, the write or the rename raises IOError, which
\* _persist_to_disk catches.
DiskToggle ==
    /\ diskOk' = ~diskOk
    /\ ret' = Ret("env", 0, 0, "disk")
    /\ NoLog
    /\ UNCHANGED <<regVars, external, monVars, stepVars>>

NextDisk ==
    \/ \E id \in Ids, p \in Ports : Register(id, p, "OURS")
    \/ \E id \in Ids : Unregister(id)
    \/ \E id \in Ids, st \in {"DETACHED", "TERMINATED"} : UpdateStatus(id, st)
    \/ Clear
    \/ DiskToggle

SpecDisk == InitRegistry /\ [][NextDisk]_vars

\* C15: while writes of the file fail, register (on a port that is not
\* indexed), unregister, update_status and clear return without raising, the
\* session map and the port index hold the operation's effect, the file is
\* as it was, and get_by_id and get_by_port answer from memory.
C15_DiskFailureKeepsMemory ==
    ~diskOk =>
        /\ \A id \in Ids, p \in Ports \ DOMAIN port_index, o \in SessionOrigins :
              LET s == Session(id, p, o, IF o = "OURS" THEN PidOf(id) ELSE NoPid)
                  out == register(Reg, s)
              IN  /\ ~out.raised
                  /\ out.r.sessions = Put(sessions, id, s)
                  /\ out.r.port_index = Put(port_index, p, id)
                  /\ out.r.disk = disk
                  /\ get_by_id(out.r, id) = s /\ get_by_port(out.r, p) = s
        /\ \A id \in DOMAIN sessions :
              LET r == unregister(Reg, id)
              IN  /\ r.sessions = Drop(sessions, id)
                  /\ r.port_index = Drop(port_index, sessions[id].port)
                  /\ r.disk = disk
                  /\ get_by_id(r, id) = NoSession
        /\ \A id \in DOMAIN sessions, st \in SessionStatuses :
              LET r == update_status(Reg, id, st)
              IN  /\ r.disk = disk
                  /\ IF st = "TERMINATED"
                     THEN r.sessions = Drop(sessions, id)
                     ELSE /\ r.sessions = [sessions EXCEPT ![id].status = st]
                          /\ r.port_index = port_index
                          /\ get_by_id(r, id).status = st
        /\ LET r == clear(Reg)
           IN  r.sessions = Empty /\ r.port_index = Empty /\ r.disk = disk

\* Writes fail, and a register has just stored a session the file does not
\* have while the file still has one that memory has dropped.
C15_Witness ==
    /\ ~diskOk
    /\ ret.op = "register" /\ ret.result = "ok"
    /\ ret.id \in DOMAIN sessions
    /\ to_dict(sessions[ret.id]) \notin disk.sessions
    /\ \E e \in disk.sessions : e.session_id \notin DOMAIN sessions

\* --------------------------------------------------------------- SpecLoad
\* A registry writes the file, something damages it, and a new process
\* constructs its SessionRegistry over what is there.
\* One entry of the file is damaged: its origin is no value of SessionOrigin.
CorruptEntry(id) ==
    /\ disk.exists /\ disk.form = "object"
    /\ \E e \in disk.sessions :
          /\ e.session_id = id /\ ~from_dict_raises(e)
          /\ disk' = [disk EXCEPT !.sessions = (@ \ {e}) \cup {[e EXCEPT !.origin = "bogus"]}]
    /\ ret' = Ret("env", 0, 0, "corrupt")
    /\ NoLog
    /\ UNCHANGED <<sessions, port_index, diskOk, external, monVars, stepVars>>

\* The whole file is replaced by bytes of another form.
ReplaceFile(form) ==
    /\ disk' = [exists |-> TRUE, form |-> form, sessions |-> {}]
    /\ ret' = Ret("env", 0, 0, form)
    /\ NoLog
    /\ UNCHANGED <<sessions, port_index, diskOk, external, monVars, stepVars>>

NextLoad ==
    \/ \E id \in Ids, p \in Ports, o \in SessionOrigins : Register(id, p, o)
    \/ \E id \in Ids : Unregister(id)
    \/ \E id \in Ids : CorruptEntry(id)
    \/ \E form \in FileForms \ {"object"} : ReplaceFile(form)
    \/ Restart

SpecLoad == InitRegistry /\ [][NextLoad]_vars

\* C16: whatever the file holds, constructing a registry over it raises
\* nothing; a file with damaged entries loads exactly its well-formed
\* entries, each UNKNOWN, and a file that cannot be parsed or read loads
\* nothing.
C16_LoadSkipsCorruptNeverRaises ==
    LET r == _load_from_disk(disk)
        good == {e \in disk.sessions :
                    e.origin \in {"ours", "external"}
                    /\ e.status \in {"running", "terminated", "detached", "unknown"}}
    IN  /\ load_error(disk) = "ok"
        /\ disk.exists /\ disk.form = "object" =>
              /\ DOMAIN r.sessions = {e.session_id : e \in good}
              /\ \A e \in good :
                    r.sessions[e.session_id] = [from_dict(e) EXCEPT !.status = "UNKNOWN"]
        /\ disk.exists /\ disk.form # "object" => r.sessions = Empty

\* ------------------------------------------------------------ SpecPersist
\* One _persist_to_disk at a time, statement by statement, with the process
\* dying or the machine losing power between any two statements.
\*
\* persist.pc    the next statement of _persist_to_disk
\* persist.data  the "sessions" list built at the top of the call
\* persist.temp  what the OS holds of the .tmp file: "none", "empty", "partial"
\*               or "complete"
\* persist.fileSynced  whether the bytes of the session file are on the medium
\*               (nothing in _persist_to_disk calls os.fsync: f.flush() only
\*               hands Python's buffer to the OS)
SetPersist(r, p) ==
    /\ SetReg(r)
    /\ persist' = p
    /\ ret' = Ret("persist", 0, 0, p.pc)
    /\ NoLog
    /\ UNCHANGED <<diskOk, external, monVars, race, threads, monitor, locking, driver_cache, managers>>

\* register up to the call of _persist_to_disk, and data = {...} in it.
PBeginRegister(id, port, origin) ==
    LET s == Session(id, port, origin, IF origin = "OURS" THEN PidOf(id) ELSE NoPid)
        r == [Reg EXCEPT !.sessions = Put(@, id, s), !.port_index = Put(@, port, id)]
    IN  /\ persist.pc = "idle"
        /\ port \notin DOMAIN port_index
        /\ SetPersist(r, [persist EXCEPT !.pc = "open",
                              !.data = {to_dict(r.sessions[i]) : i \in DOMAIN r.sessions}])

\* unregister up to the call of _persist_to_disk, and data = {...} in it.
PBeginUnregister(id) ==
    LET r == [Reg EXCEPT !.sessions = Drop(@, id), !.port_index = Drop(@, sessions[id].port)]
    IN  /\ persist.pc = "idle"
        /\ id \in DOMAIN sessions
        /\ SetPersist(r, [persist EXCEPT !.pc = "open",
                              !.data = {to_dict(r.sessions[i]) : i \in DOMAIN r.sessions}])

\* open(temp_path, "w"): the temp file is created or truncated.
POpen ==
    /\ persist.pc = "open"
    /\ SetPersist(Reg, [persist EXCEPT !.pc = "dump", !.temp = "empty"])

\* json.dump(data, f, indent=2): many writes into Python's buffer, of which
\* the OS has received none or some when the call returns.
PDump(reached) ==
    /\ persist.pc = "dump"
    /\ SetPersist(Reg, [persist EXCEPT !.pc = "flush", !.temp = reached])

\* f.flush(): the OS has the whole text.
PFlush ==
    /\ persist.pc = "flush"
    /\ SetPersist(Reg, [persist EXCEPT !.pc = "close", !.temp = "complete"])

\* The end of the with block: unlock and close.
PClose ==
    /\ persist.pc = "close"
    /\ SetPersist(Reg, [persist EXCEPT !.pc = "replace"])

\* temp_path.replace(self._persistence_path): the rename. The file now has the
\* temp file's bytes, which no fsync has put on the medium.
PReplace ==
    /\ persist.pc = "replace"
    /\ SetPersist([Reg EXCEPT !.disk = File(persist.data)],
                  [persist EXCEPT !.pc = "idle", !.temp = "none", !.fileSynced = FALSE])

\* The OS writes its dirty pages back.
Writeback ==
    /\ ~persist.fileSynced
    /\ SetPersist(Reg, [persist EXCEPT !.fileSynced = TRUE])

\* The process dies: its memory is gone, the files are as the OS has them.
ProcessCrash ==
    /\ persist.pc # "crashed"
    /\ SetPersist([Reg EXCEPT !.sessions = Empty, !.port_index = Empty],
                  [persist EXCEPT !.pc = "crashed", !.data = {}])

\* The machine loses power: the process dies, the temp file is whatever it
\* was, and a renamed file whose bytes were not on the medium comes back
\* whole or cut short (json.load fails on it).
PowerLoss(survives) ==
    /\ persist.pc # "crashed"
    /\ SetPersist([sessions |-> Empty, port_index |-> Empty,
                   disk |-> IF persist.fileSynced \/ survives THEN disk
                            ELSE [disk EXCEPT !.form = "torn", !.sessions = {}]],
                  [persist EXCEPT !.pc = "crashed", !.data = {}, !.fileSynced = TRUE])

\* The next process constructs its SessionRegistry over the file.
Recover ==
    /\ persist.pc = "crashed"
    /\ SetPersist(_load_from_disk(disk), [persist EXCEPT !.pc = "idle"])

NextPersist ==
    \/ \E id \in Ids, p \in Ports, o \in SessionOrigins : PBeginRegister(id, p, o)
    \/ \E id \in Ids : PBeginUnregister(id)
    \/ POpen
    \/ \E reached \in {"empty", "partial"} : PDump(reached)
    \/ PFlush
    \/ PClose
    \/ PReplace
    \/ Writeback
    \/ ProcessCrash
    \/ \E survives \in BOOLEAN : PowerLoss(survives)
    \/ Recover

SpecPersist == InitRegistry /\ [][NextPersist]_vars

\* C14: a persist writes the temp file, fsyncs it and renames it, so the
\* session file, whenever it exists, is a complete snapshot whose bytes are
\* on the medium: whatever step a crash interrupts, the file is never
\* half-written.
C14_PersistNeverHalfWritten ==
    disk.exists => disk.form = "object" /\ persist.fileSynced

\* --------------------------------------------------------------- SpecLock
\* Two threads call register and update_status on one SessionRegistry; each
\* statement inside `with self._lock` is a step. threads.owner and
\* threads.count are the RLock (owner 0: unlocked), threads.t[i] is thread
\* i's position, its arguments and what its call returned.
\*
\* RLock.acquire goes through when the lock is free or the caller owns it.
can_acquire_unlocked(l, i) == TRUE

can_acquire(l, i) == l.owner \in {0, i}

acquire(l, i) == [l EXCEPT !.owner = i, !.count = @ + 1]

release(l, i) == [l EXCEPT !.count = @ - 1, !.owner = IF l.count = 1 THEN 0 ELSE i]

SetThreads(r, th) ==
    /\ SetReg(r)
    /\ threads' = th
    /\ ret' = Ret("thread", 0, 0, "ok")
    /\ NoLog
    /\ UNCHANGED <<diskOk, external, monVars, race, persist, monitor, locking, driver_cache, managers>>

\* Thread i moves to pc.
Goto(l, i, pc) == [l EXCEPT !.t[i].pc = pc]

\* Thread i calls register(Session(id, port)). If the other thread has called
\* register for another session on the same port, which is not indexed, and
\* has not yet taken the lock, the two calls are concurrent: each notes the
\* other's session id as its rival.
TCallRegister(i, id, port) ==
    LET j == CHOOSE k \in Threads : k # i
        concurrent == /\ threads.t[j].pc = "r_lock"
                      /\ threads.t[j].port = port /\ threads.t[j].id # id
                      /\ port \notin DOMAIN port_index
    IN  /\ threads.t[i].pc = "idle"
        /\ SetThreads(Reg, [threads EXCEPT
               !.t[i] = [NoThread EXCEPT !.pc = "r_lock", !.op = "register", !.id = id,
                                         !.port = port,
                                         !.rival = IF concurrent THEN threads.t[j].id ELSE 0],
               !.t[j].rival = IF concurrent THEN id ELSE @])

\* Thread i calls update_status(id, status).
TCallUpdateStatus(i, id, status) ==
    /\ threads.t[i].pc = "idle"
    /\ SetThreads(Reg, [threads EXCEPT !.t[i] =
           [NoThread EXCEPT !.pc = "u_lock", !.op = "update_status", !.id = id,
                            !.status = status]])

\* with self._lock: of register, of update_status and, re-entered, of unregister.
TAcquire(i) ==
    /\ threads.t[i].pc \in {"r_lock", "u_lock", "n_lock"}
    /\ can_acquire(threads, i)
    /\ SetThreads(Reg, Goto(acquire(threads, i), i,
                            CASE threads.t[i].pc = "r_lock" -> "r_check"
                              [] threads.t[i].pc = "u_lock" -> "u_get"
                              [] OTHER -> "n_pop"))

\* if session.port in self._port_index: raise PortConflictError
RCheck(i) ==
    /\ threads.t[i].pc = "r_check"
    /\ SetThreads(Reg, IF threads.t[i].port \in DOMAIN port_index
                       THEN [threads EXCEPT !.t[i].pc = "r_release",
                                            !.t[i].res = "PortConflictError"]
                       ELSE Goto(threads, i, "r_store"))

\* self._sessions[session.session_id] = session
RStore(i) ==
    LET me == threads.t[i]
    IN  /\ me.pc = "r_store"
        /\ SetThreads([Reg EXCEPT !.sessions = Put(@, me.id, Session(me.id, me.port, "OURS", PidOf(me.id)))],
                      Goto(threads, i, "r_index"))

\* self._port_index[session.port] = session.session_id
RIndex(i) ==
    LET me == threads.t[i]
    IN  /\ me.pc = "r_index"
        /\ SetThreads([Reg EXCEPT !.port_index = Put(@, me.port, me.id)],
                      Goto(threads, i, "r_persist"))

\* self._persist_to_disk(), the last statement of register
RPersist(i) ==
    /\ threads.t[i].pc = "r_persist"
    /\ SetThreads(_persist_to_disk(Reg),
                  [threads EXCEPT !.t[i].pc = "r_release", !.t[i].res = "ok"])

\* if session := self._sessions.get(session_id): session.status = status
UGet(i) ==
    LET me == threads.t[i]
    IN  /\ me.pc = "u_get"
        /\ IF me.id \notin DOMAIN sessions
           THEN SetThreads(Reg, [threads EXCEPT !.t[i].pc = "u_release", !.t[i].res = "false"])
           ELSE SetThreads([Reg EXCEPT !.sessions[me.id].status = me.status],
                           Goto(threads, i, IF me.status = "TERMINATED" THEN "n_lock"
                                            ELSE "u_persist"))

\* unregister's body: the two pops and the persist.
NPop(i) ==
    /\ threads.t[i].pc = "n_pop"
    /\ SetThreads(unregister(Reg, threads.t[i].id), Goto(threads, i, "n_release"))

\* else: self._persist_to_disk()
UPersist(i) ==
    /\ threads.t[i].pc = "u_persist"
    /\ SetThreads(_persist_to_disk(Reg), Goto(threads, i, "u_return"))

\* return True
UReturn(i) ==
    /\ threads.t[i].pc = "u_return"
    /\ SetThreads(Reg, [threads EXCEPT !.t[i].pc = "u_release", !.t[i].res = "true"])

\* The end of a with block: of unregister (back in update_status), of
\* register or of update_status (the call is over).
TRelease(i) ==
    /\ threads.t[i].pc \in {"r_release", "u_release", "n_release"}
    /\ SetThreads(Reg, Goto(release(threads, i), i,
                            IF threads.t[i].pc = "n_release" THEN "u_return" ELSE "done"))

\* The caller has its result and is free to call again.
TReturn(i) ==
    /\ threads.t[i].pc = "done"
    /\ SetThreads(Reg, [threads EXCEPT !.t[i] = NoThread])

NextLock ==
    \/ \E i \in Threads, id \in Ids, p \in Ports : TCallRegister(i, id, p)
    \/ \E i \in Threads, id \in Ids, st \in {"TERMINATED", "DETACHED"} :
          TCallUpdateStatus(i, id, st)
    \/ \E i \in Threads :
          \/ TAcquire(i)
          \/ RCheck(i)
          \/ RStore(i)
          \/ RIndex(i)
          \/ RPersist(i)
          \/ UGet(i)
          \/ NPop(i)
          \/ UPersist(i)
          \/ UReturn(i)
          \/ TRelease(i)
          \/ TReturn(i)

SpecLock == InitRegistry /\ [][NextLock]_vars

\* The positions between an acquire and its release.
InsideLock ==
    {"r_check", "r_store", "r_index", "r_persist", "r_release",
     "u_get", "u_persist", "u_return", "u_release", "n_lock", "n_pop", "n_release"}

\* C17: the operations of the two threads take effect one at a time: at most
\* one thread is between an acquire and its release, and it is the lock's
\* owner; when both threads have called register concurrently for distinct
\* sessions on one port that was not indexed, exactly one returned normally, the
\* other got PortConflictError and the port holds the first one's session
\* only; and a
\* thread that reaches unregister's acquire from update_status(TERMINATED)
\* owns the lock and is let through.
C17_RegistryOperationsSerialized ==
    /\ \A i, j \in Threads :
          threads.t[i].pc \in InsideLock /\ threads.t[j].pc \in InsideLock => i = j
    /\ \A i \in Threads :
          threads.t[i].pc \in InsideLock => threads.owner = i /\ threads.count >= 1
    /\ \A i, j \in Threads :
          LET a == threads.t[i]
              b == threads.t[j]
          IN  (/\ i # j /\ a.pc = "done" /\ b.pc = "done"
               /\ a.op = "register" /\ b.op = "register"
               /\ a.rival = b.id /\ b.rival = a.id) =>
                  /\ {a.res, b.res} = {"ok", "PortConflictError"}
                  /\ a.res = "ok" =>
                        /\ port_index[a.port] = a.id /\ sessions[a.id].port = a.port
                        /\ b.id \in DOMAIN sessions => sessions[b.id].port # a.port
    /\ \A i \in Threads :
          threads.t[i].pc = "n_lock" => threads.owner = i /\ can_acquire(threads, i)

\* Both threads called register for distinct sessions on one free port before
\* either had the lock, and both calls are over.
C17_Witness ==
    \E i, j \in Threads :
        /\ i # j
        /\ threads.t[i].pc = "done" /\ threads.t[j].pc = "done"
        /\ threads.t[i].op = "register" /\ threads.t[j].op = "register"
        /\ threads.t[i].port = threads.t[j].port /\ threads.t[i].id # threads.t[j].id
        /\ threads.t[i].rival = threads.t[j].id /\ threads.t[j].rival = threads.t[i].id
        /\ threads.t[i].res = "ok" /\ threads.t[j].res = "PortConflictError"

\* ------------------------------------------------------------- the world
\* Everything a handler reads and writes, as one value: a handler is a map
\* from worlds to worlds, so that one handler can call another.
World ==
    [reg |-> Reg, external |-> external, spawned |-> spawned,
     processes |-> processes, current |-> current_session, next_id |-> next_id,
     signalled |-> {}, callbacks |-> NoCalls]

\* The OS forgets a process that has exited and that no handle refers to.
Reap(sp, procs) ==
    [i \in {j \in DOMAIN sp : sp[j].state = "alive"
                               \/ \E s \in DOMAIN procs : procs[s] = Proc("ours", j)} |-> sp[i]]

SetWorld(w) ==
    /\ SetReg(w.reg)
    /\ external' = w.external
    /\ spawned' = Reap(w.spawned, w.processes)
    /\ processes' = w.processes
    /\ current_session' = w.current
    /\ next_id' = w.next_id
    /\ signalled' = w.signalled
    /\ callbacks' = w.callbacks
    /\ notified' = notified \cup {i \in Ids : w.callbacks[i] # <<>>}

in_use(w, p) == p \in Listening(w.external, w.spawned)

\* No handle (Python None).
NoProc == Proc("none", 0)

\* Popen.poll() is not None: the process has exited.
exited(w, h) ==
    \/ h.kind = "ours" /\ w.spawned[h.n].state = "exited"
    \/ h.kind = "ext" /\ h.n \notin DOMAIN w.external

\* The OS delivers the signals sigs to process h.
signal(w, h, sigs) ==
    [w EXCEPT !.signalled = @ \cup {[proc |-> h, sig |-> s] : s \in sigs}]

\* Process h exits with returncode code.
die(w, h, code) ==
    IF h.kind = "ours"
    THEN [w EXCEPT !.spawned[h.n] =
              [@ EXCEPT !.state = "exited", !.listening = FALSE, !.returncode = code]]
    ELSE [w EXCEPT !.external = Drop(@, h.n)]

\* ------------------------------------------------------------ monitor.py
track_process(w, sid, h) == [w EXCEPT !.processes = Put(@, sid, h)]

untrack_process(w, sid) == [w EXCEPT !.processes = Drop(@, sid)]

\* A lookup that falls back on whatever process holds the session's port.
get_process_by_port(w, sid) ==
    IF sid \in DOMAIN w.processes THEN w.processes[sid]
    ELSE IF sid \in DOMAIN w.reg.sessions /\ w.reg.sessions[sid].port \in DOMAIN w.external
         THEN Proc("ext", w.reg.sessions[sid].port)
         ELSE NoProc

\* self._processes.get(session_id)
get_process(w, sid) == IF sid \in DOMAIN w.processes THEN w.processes[sid] ELSE NoProc

\* detach_session that marks the session and leaves the handle tracked.
detach_session_keep_tracked(w, sid) ==
    IF get_process(w, sid) # NoProc
    THEN [w |-> [w EXCEPT !.reg = update_status(@, sid, "DETACHED")], result |-> "true"]
    ELSE [w |-> w, result |-> "false"]

\* detach_session: [w, result]
detach_session(w, sid) ==
    IF get_process(w, sid) # NoProc
    THEN [w |-> [untrack_process(w, sid) EXCEPT !.reg = update_status(@, sid, "DETACHED")],
          result |-> "true"]
    ELSE [w |-> w, result |-> "false"]

\* How the process answers kill_session's signals:
\*   oserror  terminate() raises OSError
\*   term     it exits on SIGTERM within timeout
\*   kill     it outlives timeout and exits on SIGKILL within a second
\*   stuck    it is not reaped a second after SIGKILL: wait raises TimeoutExpired
KillResponses == {"oserror", "term", "kill", "stuck"}

\* kill_session that terminates the process and leaves its handle tracked.
kill_session_keep_tracked(w, sid, resp) ==
    LET h == get_process(w, sid)
    IN  IF h = NoProc THEN [w |-> w, result |-> "false"]
        ELSE [w |-> [die(signal(w, h, {"SIGTERM"}), h, -15) EXCEPT
                        !.reg = update_status(@, sid, "TERMINATED")],
              result |-> "true"]

\* kill_session: [w, result]; result true, false, or the exception that leaves it.
kill_session(w, sid, resp) ==
    LET h == get_process(w, sid)
        done(w1) ==
            [w |-> [untrack_process(w1, sid) EXCEPT !.reg = update_status(@, sid, "TERMINATED")],
             result |-> "true"]
    IN  IF h = NoProc THEN [w |-> w, result |-> "false"]
        ELSE IF exited(w, h) THEN done(w)
        ELSE CASE resp = "oserror" -> [w |-> w, result |-> "false"]
               [] resp = "term" -> done(die(signal(w, h, {"SIGTERM"}), h, -15))
               [] resp = "kill" -> done(die(signal(w, h, {"SIGTERM", "SIGKILL"}), h, -9))
               [] OTHER -> [w |-> signal(w, h, {"SIGTERM", "SIGKILL"}),
                            result |-> "TimeoutExpired"]

\* kill_all: kill_session for each id of the snapshot of the tracked ids, in
\* the dict's order (the order of tracking: ascending ids); resps[sid] is how
\* sid's process answers. [w, result, killed]: result "ok" and the count, or
\* the exception a kill_session let out, which ends the loop.
RECURSIVE kill_from(_, _, _, _)
kill_from(w, ids, resps, killed) ==
    IF ids = {} THEN [w |-> w, result |-> "ok", killed |-> killed]
    ELSE LET sid == CHOOSE i \in ids : \A j \in ids : i <= j
             k == kill_session(w, sid, resps[sid])
         IN  IF k.result = "TimeoutExpired"
             THEN [w |-> k.w, result |-> "TimeoutExpired", killed |-> killed]
             ELSE kill_from(k.w, ids \ {sid}, resps,
                            IF k.result = "true" THEN killed + 1 ELSE killed)

kill_all(w, resps) == kill_from(w, DOMAIN w.processes, resps, 0)

\* _check_processes: one poll cycle over the snapshot ids of the tracked ids.
RECURSIVE check_from(_, _)
check_from(w, ids) ==
    IF ids = {} THEN w
    ELSE LET sid == CHOOSE i \in ids : \A j \in ids : i <= j
             h == get_process(w, sid)
             w1 == untrack_process(w, sid)
             session == get_by_id(w1.reg, sid)
             w2 == IF session = NoSession THEN w1
                   ELSE [w1 EXCEPT
                           !.reg = update_status(@, sid, "TERMINATED"),
                           !.callbacks[sid] = Append(@,
                               [session |-> [session EXCEPT !.status = "TERMINATED"],
                                returncode |-> w.spawned[h.n].returncode])]
         IN  check_from(IF h # NoProc /\ exited(w, h) THEN w2 ELSE w, ids \ {sid})

\* A poll cycle that never removes a handle from tracking.
_check_processes_keep_tracked(w) ==
    [check_from(w, DOMAIN w.processes) EXCEPT !.processes = w.processes]

_check_processes(w) == check_from(w, DOMAIN w.processes)

\* ---------------------------------------------------------- discovery.py
\* get_devtools_info: the port answers GET /json/version.
get_devtools_info(w, p) ==
    \/ p \in DOMAIN w.external /\ w.external[p].devtools
    \/ \E i \in DOMAIN w.spawned :
          /\ w.spawned[i].state = "alive" /\ w.spawned[i].listening
          /\ w.spawned[i].port = p

\* scan_for_sessions that lists every port in use, without the probe.
scan_for_sessions_any_listener(w, range) == {p \in range : in_use(w, p)}

scan_for_sessions(w, range) == {p \in range : in_use(w, p) /\ get_devtools_info(w, p)}

\* scan_and_register: [w, found]; found lists the ids of the sessions registered.
RECURSIVE scan_from(_, _, _)
scan_from(w, ports, found) ==
    IF ports = {} THEN [w |-> w, found |-> found]
    ELSE LET p == CHOOSE x \in ports : \A y \in ports : x <= y
             s == Session(w.next_id, p, "EXTERNAL", NoPid)
             out == register(w.reg, s)
             w1 == [w EXCEPT !.next_id = @ + 1, !.reg = out.r]
         IN  IF get_by_port(w.reg, p) # NoSession
             THEN scan_from(w, ports \ {p}, found)
             ELSE scan_from(w1, ports \ {p},
                            IF out.raised THEN found ELSE Append(found, s.session_id))

scan_and_register(w, range) == scan_from(w, scan_for_sessions(w, range), <<>>)

\* scan_single_port: [w, session]
scan_single_port(w, p) ==
    LET out == scan_and_register(w, {p})
    IN  [w |-> out.w,
         session |-> IF out.found = <<>> THEN NoSession ELSE out.w.reg.sessions[out.found[1]]]

\* check_port that asks the OS first and the registry only for a port in use.
check_port_probe_first(w, p) ==
    LET existing == get_by_port(w.reg, p)
        scan == scan_single_port(w, p)
    IN  IF ~in_use(w, p) THEN [w |-> w, available |-> TRUE, existing |-> NoSession]
        ELSE IF existing # NoSession
             THEN [w |-> w, available |-> FALSE, existing |-> existing]
             ELSE [w |-> scan.w, available |-> FALSE, existing |-> scan.session]

\* check_port: [w, available, existing]
check_port(w, p) ==
    LET existing == get_by_port(w.reg, p)
        scan == scan_single_port(w, p)
    IN  IF existing # NoSession THEN [w |-> w, available |-> FALSE, existing |-> existing]
        ELSE IF in_use(w, p)
             THEN [w |-> scan.w, available |-> FALSE, existing |-> scan.session]
             ELSE [w |-> w, available |-> TRUE, existing |-> NoSession]

\* What a decision callback may return; "bogus" is any other string.
ConflictActions == {"add", "ignore", "kill", "cancel", "bogus"}

\* check_and_prompt with a callback that returns answer: [w, action, existing]
check_and_prompt(w, p, answer) ==
    LET cp == check_port(w, p)
    IN  IF cp.available THEN [w |-> cp.w, action |-> "available", existing |-> NoSession]
        ELSE [w |-> cp.w,
              action |-> IF answer \in {"add", "ignore", "kill", "cancel"}
                         THEN answer ELSE "cancel",
              existing |-> cp.existing]

\* -------------------------------------------------------------- driver.py
\* The branches without the check of existing.origin.
start_branch_any_origin(action, existing) ==
    IF action = "available" THEN "spawn"
    ELSE IF action = "cancel" \/ action = "conflict" THEN "none"
    ELSE IF action = "kill" /\ existing # NoSession THEN "kill"
    ELSE IF action = "ignore" THEN "existing"
    ELSE IF action = "add" THEN "existing"
    ELSE "spawn"

\* The branch start_app_with_debugging takes on check_and_prompt's answer:
\*   spawn, kill (kill the existing session, then spawn), none (return None),
\*   existing (return the existing session).
start_branch(action, existing) ==
    IF action = "available" THEN "spawn"
    ELSE IF action = "cancel" \/ action = "conflict" THEN "none"
    ELSE IF action = "kill" /\ existing # NoSession
         THEN IF existing.origin = "OURS" THEN "kill" ELSE "none"
    ELSE IF action = "ignore" THEN "existing"
    ELSE IF action = "add" THEN "existing"
    ELSE "spawn"

\* A start that registers the session before Popen is known to have succeeded.
spawn_and_register_first(w, p, spawn_ok, binds) ==
    LET id == w.next_id
        h == Proc("ours", id)
        out == register(w.reg, Session(id, p, "OURS", PidOf(id)))
        w0 == [w EXCEPT !.next_id = @ + 1, !.reg = out.r]
        w1 == [w0 EXCEPT !.spawned = Put(@, id, [port |-> p, state |-> "alive",
                                                 listening |-> FALSE, returncode |-> 0])]
        w2 == track_process(w1, id, h)
        w3 == IF binds /\ ~in_use(w2, p)
              THEN [w2 EXCEPT !.spawned[id].listening = TRUE] ELSE w2
    IN  IF out.raised THEN [w |-> w, result |-> "PortConflictError", id |-> 0]
        ELSE IF ~spawn_ok THEN [w |-> w0, result |-> "SessionStartError", id |-> 0]
        ELSE [w |-> [w3 EXCEPT !.current = id], result |-> "session", id |-> id]

\* A start that re-raises PortConflictError and leaves the new process alone.
spawn_and_register_no_terminate(w, p, spawn_ok, binds) ==
    LET id == w.next_id
        h == Proc("ours", id)
        w1 == [w EXCEPT !.next_id = @ + 1,
                        !.spawned = Put(@, id, [port |-> p, state |-> "alive",
                                                listening |-> FALSE, returncode |-> 0])]
        out == register(w1.reg, Session(id, p, "OURS", PidOf(id)))
        w2 == track_process([w1 EXCEPT !.reg = out.r], id, h)
        w3 == IF binds /\ ~in_use(w2, p)
              THEN [w2 EXCEPT !.spawned[id].listening = TRUE] ELSE w2
    IN  IF ~spawn_ok THEN [w |-> w, result |-> "SessionStartError", id |-> 0]
        ELSE IF out.raised THEN [w |-> w1, result |-> "PortConflictError", id |-> 0]
        ELSE [w |-> [w3 EXCEPT !.current = id], result |-> "session", id |-> id]

\* Popen, Session(...), register and track, the wait for the port: [w, result, id]
spawn_and_register(w, p, spawn_ok, binds) ==
    LET id == w.next_id
        h == Proc("ours", id)
        w1 == [w EXCEPT !.next_id = @ + 1,
                        !.spawned = Put(@, id, [port |-> p, state |-> "alive",
                                                listening |-> FALSE, returncode |-> 0])]
        out == register(w1.reg, Session(id, p, "OURS", PidOf(id)))
        w2 == track_process([w1 EXCEPT !.reg = out.r], id, h)
        w3 == IF binds /\ ~in_use(w2, p)
              THEN [w2 EXCEPT !.spawned[id].listening = TRUE] ELSE w2
    IN  IF ~spawn_ok THEN [w |-> w, result |-> "SessionStartError", id |-> 0]
        ELSE IF out.raised
             THEN [w |-> signal(w1, h, {"SIGTERM"}), result |-> "PortConflictError", id |-> 0]
             ELSE [w |-> [w3 EXCEPT !.current = id], result |-> "session", id |-> id]

\* start_app_with_debugging(port, on_conflict): [w, result, id]
start_app_with_debugging(w, p, answer, resp, spawn_ok, binds) ==
    LET cap == check_and_prompt(w, p, answer)
        branch == start_branch(cap.action, cap.existing)
        k == kill_session(cap.w, cap.existing.session_id, resp)
    IN  CASE branch = "none" -> [w |-> cap.w, result |-> "none", id |-> 0]
          [] branch = "existing" ->
                [w |-> cap.w,
                 result |-> IF cap.existing = NoSession THEN "none" ELSE "existing",
                 id |-> cap.existing.session_id]
          [] branch = "kill" ->
                IF k.result = "TimeoutExpired"
                THEN [w |-> k.w, result |-> "TimeoutExpired", id |-> 0]
                ELSE spawn_and_register(k.w, p, spawn_ok, binds)
          [] OTHER -> spawn_and_register(cap.w, p, spawn_ok, binds)

\* find_available_port(start_port): the first port from start_port on that
\* nothing listens on; 0: RuntimeError, none is left in the range.
find_available_port(w, start_port) ==
    LET free == {p \in Ports : p >= start_port /\ ~in_use(w, p)}
    IN  IF free = {} THEN 0 ELSE CHOOSE p \in free : \A q \in free : p <= q

\* start_app_with_debugging(port, on_conflict, auto_find_port=True)
start_app_auto_find_port(w, p, answer, resp, spawn_ok, binds) ==
    LET port == find_available_port(w, p)
    IN  IF port = 0 THEN [w |-> w, result |-> "RuntimeError", id |-> 0]
        ELSE start_app_with_debugging(w, port, answer, resp, spawn_ok, binds)

\* stop_session that forgets the current session whatever the monitor answers.
stop_session_always_clears(w, sid_arg, resp) ==
    LET sid == IF sid_arg # 0 THEN sid_arg ELSE w.current
        k == kill_session(w, sid, resp)
    IN  IF sid = 0 THEN [w |-> w, result |-> "false"]
        ELSE [w |-> [k.w EXCEPT !.current = 0], result |-> k.result]

\* stop_session(session_id): [w, result]; sid 0 is session_id=None.
stop_session(w, sid_arg, resp) ==
    LET sid == IF sid_arg # 0 THEN sid_arg ELSE w.current
        k == kill_session(w, sid, resp)
    IN  IF sid = 0 THEN [w |-> w, result |-> "false"]
        ELSE IF k.result = "true" /\ w.current # 0 /\ w.current = sid
             THEN [w |-> [k.w EXCEPT !.current = 0], result |-> k.result]
             ELSE k

\* detach_session(session_id): [w, result]
driver_detach_session(w, sid_arg) ==
    LET sid == IF sid_arg # 0 THEN sid_arg ELSE w.current
        d == detach_session(w, sid)
    IN  IF sid = 0 THEN [w |-> w, result |-> "false"]
        ELSE IF d.result = "true" /\ w.current # 0 /\ w.current = sid
             THEN [w |-> [d.w EXCEPT !.current = 0], result |-> d.result]
             ELSE d

\* scan_for_external_sessions: the configured range is all of Ports.
scan_for_external_sessions(w) == scan_and_register(w, Ports)

\* --------------------------------------------------- driver: the operations
\* uuid4 never repeats; the model has MaxId of them.
IdsLeft(w) == w.next_id <= MaxId + 1

\* The environment's answers are drawn only where the handler reads them.
Start(p, answer) ==
    \E cap \in {check_and_prompt(World, p, answer)} :
    \E branch \in {start_branch(cap.action, cap.existing)} :
    \E resp \in IF branch = "kill" THEN KillResponses ELSE {"term"} :
    \E spawn_ok \in IF branch \in {"spawn", "kill"} THEN BOOLEAN ELSE {TRUE} :
    \E binds \in IF branch \in {"spawn", "kill"} THEN BOOLEAN ELSE {FALSE} :
    \E out \in {start_app_with_debugging(World, p, answer, resp, spawn_ok, binds)} :
        /\ IdsLeft(out.w)
        /\ SetWorld(out.w)
        /\ ret' = RetArg("start", out.id, p, out.result,
                        IF cap.action = "available" THEN "" ELSE answer)
        /\ UNCHANGED <<diskOk, stepVars>>

Stop(sid) ==
    \E resp \in IF (IF sid # 0 THEN sid ELSE current_session) \in DOMAIN processes
                THEN KillResponses ELSE {"term"} :
    \E out \in {stop_session(World, sid, resp)} :
        /\ SetWorld(out.w)
        /\ ret' = RetArg("stop", 0, 0, out.result, "")
        /\ UNCHANGED <<diskOk, stepVars>>

Detach(sid) ==
    \E out \in {driver_detach_session(World, sid)} :
        /\ SetWorld(out.w)
        /\ ret' = RetArg("detach", 0, 0, out.result, "")
        /\ UNCHANGED <<diskOk, stepVars>>

Scan ==
    \E out \in {scan_for_external_sessions(World)} :
        /\ IdsLeft(out.w)
        /\ SetWorld(out.w)
        /\ ret' = RetArg("scan", IF out.found = <<>> THEN 0 ELSE out.found[Len(out.found)],
                        0, "ok", "")
        /\ UNCHANGED <<diskOk, stepVars>>

\* ProcessMonitor.kill_all, with an answer for each tracked process.
KillAll ==
    \E resps \in {f \in [Ids -> KillResponses] :
                      \A i \in Ids \ DOMAIN processes : f[i] = "term"} :
    \E out \in {kill_all(World, resps)} :
        /\ SetWorld(out.w)
        /\ ret' = RetArg("kill_all", 0, 0, out.result, "")
        /\ UNCHANGED <<diskOk, stepVars>>

\* The monitor thread's loop body, once.
PollCycle ==
    /\ SetWorld(_check_processes(World))
    /\ ret' = RetArg("poll", 0, 0, "ok", "")
    /\ UNCHANGED <<diskOk, stepVars>>

\* ------------------------------------------------------ environment: the OS
\* A spawned process exits on its own.
ProcessExit(i, code) ==
    /\ i \in DOMAIN spawned /\ spawned[i].state = "alive"
    /\ SetWorld(die(World, Proc("ours", i), code))
    /\ ret' = Ret("env", 0, 0, "ok")
    /\ UNCHANGED <<diskOk, stepVars>>

\* A spawned process opens its debugging port, when nothing else holds it.
ProcessBind(i) ==
    /\ i \in DOMAIN spawned /\ spawned[i].state = "alive" /\ ~spawned[i].listening
    /\ ~is_port_in_use(spawned[i].port)
    /\ spawned' = [spawned EXCEPT ![i].listening = TRUE]
    /\ ret' = Ret("env", 0, 0, "ok")
    /\ NoLog
    /\ UNCHANGED <<regVars, diskOk, external, processes, current_session, next_id, notified, stepVars>>

\* ------------------------------------------------------------------ Spec
Init == InitRegistry

Next ==
    \/ \E p \in Ports, a \in ConflictActions : Start(p, a)
    \/ \E sid \in Ids \cup {0} : Stop(sid)
    \/ \E sid \in Ids \cup {0} : Detach(sid)
    \/ Scan
    \/ PollCycle
    \/ KillAll
    \/ \E i \in Ids, code \in {0, 1} : ProcessExit(i, code)
    \/ \E i \in Ids : ProcessBind(i)
    \/ \E p \in Ports, dv \in BOOLEAN : ExternalStart(p, dv)
    \/ \E p \in Ports : ExternalStop(p)

Spec == Init /\ [][Next]_vars

\* --------------------------------------------------- properties of the driver
\* C1: whatever the driver's operations and the poll cycles, every signal goes
\* to a process this system spawned, never to the process of a session whose
\* origin is EXTERNAL.
C1_OnlySpawnedProcessesSignalled ==
    \A e \in signalled :
        /\ e.proc.kind = "ours"
        /\ e.proc.n \in DOMAIN sessions => sessions[e.proc.n].origin = "OURS"

\* An operation has just signalled while an EXTERNAL session is stored and
\* its process is alive.
C1_Witness ==
    /\ signalled # {}
    /\ \E i \in DOMAIN sessions :
          sessions[i].origin = "EXTERNAL" /\ sessions[i].port \in DOMAIN external

\* The port's occupant, as check_and_prompt reports it, is an EXTERNAL session.
ExternalOccupant(cap) == cap.existing # NoSession /\ cap.existing.origin = "EXTERNAL"

\* C4 as stated: check_and_prompt, when the occupant is an EXTERNAL session and
\* the callback returns KILL, terminates nothing and returns a refusal (cancel)
\* rather than the KILL action.
C4_CheckAndPromptRefusesKill ==
    \A p \in Ports :
        LET cap == check_and_prompt(World, p, "kill")
        IN  ExternalOccupant(cap) => (cap.action = "cancel" /\ cap.w.signalled = {})

\* C4 amended: check_and_prompt itself terminates nothing and returns the KILL
\* action with the EXTERNAL session; start_app_with_debugging then refuses: it
\* sends no signal, spawns nothing, tracks nothing and returns no session.
C4_DriverRefusesKillOfExternal ==
    \A p \in Ports :
        LET cap == check_and_prompt(World, p, "kill")
        IN  ExternalOccupant(cap) =>
              /\ cap.action = "kill"
              /\ cap.w.signalled = {} /\ cap.w.external = external
              /\ \A resp \in KillResponses, spawn_ok \in BOOLEAN, binds \in BOOLEAN :
                    LET out == start_app_with_debugging(World, p, "kill", resp, spawn_ok, binds)
                    IN  /\ out.result = "none"
                        /\ out.w.signalled = {}
                        /\ out.w.spawned = spawned /\ out.w.processes = processes
                        /\ out.w.external = external
                        /\ out.w.reg = cap.w.reg

\* start_app_with_debugging has just returned None on the answer KILL for a
\* port whose stored session is EXTERNAL and whose process is alive.
C4_Witness ==
    /\ ret.op = "start" /\ ret.arg = "kill" /\ ret.result = "none"
    /\ ret.port \in DOMAIN external
    /\ get_by_port(Reg, ret.port) # NoSession
    /\ get_by_port(Reg, ret.port).origin = "EXTERNAL"
    /\ signalled = {}

\* C18: kill_session on a tracked id whose process exits on SIGTERM or on
\* SIGKILL returns true and leaves the id untracked and its session out of the
\* registry, and a second kill_session of that id returns false and changes
\* nothing; kill_session on an id that is not tracked returns false and
\* changes nothing.
C18_KillUntracksAndRemoves ==
    \A sid \in Ids :
        IF sid \in DOMAIN processes
        THEN \A resp \in {"term", "kill"} :
                 LET k == kill_session(World, sid, resp)
                 IN  /\ k.result = "true"
                     /\ sid \notin DOMAIN k.w.processes
                     /\ sid \notin DOMAIN k.w.reg.sessions
                     /\ \A again \in KillResponses :
                           kill_session(k.w, sid, again) = [w |-> k.w, result |-> "false"]
        ELSE \A resp \in KillResponses :
                 kill_session(World, sid, resp) = [w |-> World, result |-> "false"]

\* stop_session has just killed a live tracked process: it was signalled, and
\* its id is neither tracked nor stored.
C18_Witness ==
    /\ ret.op = "stop" /\ ret.result = "true"
    /\ \E e \in signalled :
          /\ e.proc.n \notin DOMAIN processes
          /\ e.proc.n \notin DOMAIN sessions

\* C19: kill_session never lets an exception out: when signalling the process
\* raises OSError, or the process is still alive a second after SIGKILL,
\* kill_session returns false and leaves the tracked handles and the registry
\* as they were.
C19_KillNeverRaises ==
    \A sid \in DOMAIN processes, resp \in KillResponses :
        LET k == kill_session(World, sid, resp)
        IN  /\ k.result \in {"true", "false"}
            /\ (resp \in {"oserror", "stuck"} /\ ~exited(World, processes[sid])) =>
                  /\ k.result = "false"
                  /\ k.w.processes = processes
                  /\ k.w.reg = Reg

\* A poll cycle and a kill_all in world w neither change the stored session of
\* sid nor signal the process spawned for it.
Untouched(w, sid) ==
    LET quiet(out) ==
            /\ get_by_id(out.reg, sid) = get_by_id(w.reg, sid)
            /\ get_by_port(out.reg, get_by_id(w.reg, sid).port) =
                   get_by_port(w.reg, get_by_id(w.reg, sid).port)
            /\ \A e \in out.signalled \ w.signalled : e.proc # Proc("ours", sid)
    IN  /\ quiet(_check_processes(w))
        /\ \A resps \in [Ids -> KillResponses] : quiet(kill_all(w, resps).w)

\* C20: detach_session on a tracked id returns true, removes the handle from
\* tracking, sends no signal and leaves the process as it is, and leaves the
\* session stored on its port with status DETACHED; from then on (in every
\* state in which a DETACHED session is stored) the id is untracked and neither
\* a poll cycle nor a kill_all changes the session or signals its process.
\* detach_session on an untracked id returns false and changes nothing.
C20_DetachLeavesProcessAlone ==
    /\ \A sid \in Ids :
          LET d == detach_session(World, sid)
          IN  IF sid \in DOMAIN processes
              THEN /\ d.result = "true"
                   /\ d.w.processes = Drop(processes, sid)
                   /\ d.w.signalled = {} /\ d.w.spawned = spawned
                   /\ sid \in DOMAIN sessions =>
                         /\ d.w.reg.sessions = [sessions EXCEPT ![sid].status = "DETACHED"]
                         /\ d.w.reg.port_index = port_index
                   /\ Untouched(d.w, sid)
              ELSE d = [w |-> World, result |-> "false"]
    /\ \A sid \in DOMAIN sessions :
          sessions[sid].status = "DETACHED" =>
              sid \notin DOMAIN processes /\ Untouched(World, sid)

\* A kill_all has just signalled a tracked process while a DETACHED session
\* is stored and indexed on its port and its process, untracked, is alive.
C20_Witness ==
    /\ ret.op = "kill_all" /\ signalled # {}
    /\ \E sid \in DOMAIN sessions :
          /\ sessions[sid].status = "DETACHED"
          /\ get_by_port(Reg, sessions[sid].port) = sessions[sid]
          /\ sid \notin DOMAIN processes
          /\ sid \in DOMAIN spawned /\ spawned[sid].state = "alive"

\* C21: kill_all calls kill_session for every id tracked when it is called and
\* returns the number of those calls that returned true: whatever the
\* processes answer, it returns, every tracked process whose kill_session
\* alone would return true is afterwards untracked and out of the registry,
\* and the count is the number of them; if every one of them would, nothing
\* is tracked afterwards.
C21_KillAllCountsEveryKill ==
    \A resps \in [Ids -> KillResponses] :
        LET out == kill_all(World, resps)
            alone(sid) == kill_session(World, sid, resps[sid])
            killable == {sid \in DOMAIN processes : alone(sid).result = "true"}
        IN  /\ out.result = "ok"
            /\ out.killed = Cardinality(killable)
            /\ \A sid \in DOMAIN processes :
                  alone(sid).w.signalled \subseteq out.w.signalled
            /\ \A sid \in killable :
                  sid \notin DOMAIN out.w.processes /\ sid \notin DOMAIN out.w.reg.sessions
            /\ killable = DOMAIN processes => out.w.processes = Empty

\* C24: check_port(port) returns (False, s), changing nothing, whenever the
\* registry stores a session s on the port, whether or not the port is in use;
\* when it stores none, it returns (True, None), changing nothing, exactly when
\* the port is free, and (False, occupant) when the port is in use, where an
\* occupant other than None is an EXTERNAL RUNNING session on that port that
\* was not stored before and is stored now.
C24_CheckPortRegistryFirst ==
    \A p \in Ports :
        LET cp == check_port(World, p)
            held == {sid \in DOMAIN sessions : sessions[sid].port = p}
        IN  /\ \A sid \in held :
                  cp = [w |-> World, available |-> FALSE, existing |-> sessions[sid]]
            /\ held = {} =>
                  /\ cp.available <=> ~is_port_in_use(p)
                  /\ cp.available => cp.existing = NoSession /\ cp.w = World
                  /\ ~cp.available /\ cp.existing = NoSession => cp.w = World
                  /\ ~cp.available /\ cp.existing # NoSession =>
                        /\ cp.existing.origin = "EXTERNAL"
                        /\ cp.existing.status = "RUNNING"
                        /\ cp.existing.port = p
                        /\ cp.existing.session_id \notin DOMAIN sessions
                        /\ get_by_port(cp.w.reg, p) = cp.existing

\* start_app_with_debugging has just called check_port on a port held by a
\* foreign DevTools process: the session it discovered is stored, EXTERNAL,
\* and was returned to the declined conflict prompt.
C24_Witness ==
    /\ ret.op = "start" /\ ret.arg = "cancel" /\ ret.result = "none"
    /\ ret.port \in DOMAIN external
    /\ next_id - 1 \in DOMAIN sessions
    /\ sessions[next_id - 1].origin = "EXTERNAL"
    /\ sessions[next_id - 1].port = ret.port

\* C25: whenever check_and_prompt returns the action ADD, the existing session
\* it returns is a session, and it is stored in the registry on that port
\* after the call (discovery stored it before the callback was asked).
C25_AddReturnsRegisteredSession ==
    \A p \in Ports :
        LET cap == check_and_prompt(World, p, "add")
        IN  cap.action = "add" =>
                /\ cap.existing # NoSession
                /\ get_by_port(cap.w.reg, p) = cap.existing

\* C26: scan_and_register over the ports lo..hi returns a session for a port
\* of the range exactly when the port is in use, answers the DevTools probe and
\* no stored session is on it; each returned session is EXTERNAL, RUNNING,
\* without pid, new, and stored under its port, and the sessions stored before
\* the scan are stored unchanged after it, with no others added.
C26_ScanRegistersUnclaimedDevtoolsPorts ==
    \A lo \in Ports, hi \in Ports :
        LET out == scan_and_register(World, lo..hi)
            found == {out.found[i] : i \in 1..Len(out.found)}
            after == out.w.reg.sessions
            expected == {p \in lo..hi :
                            /\ is_port_in_use(p) /\ get_devtools_info(World, p)
                            /\ \A sid \in DOMAIN sessions : sessions[sid].port # p}
        IN  /\ Cardinality(found) = Len(out.found)
            /\ found \cap DOMAIN sessions = {}
            /\ DOMAIN after = DOMAIN sessions \cup found
            /\ {after[sid].port : sid \in found} = expected
            /\ Cardinality(found) = Cardinality(expected)
            /\ \A sid \in found :
                  /\ after[sid].origin = "EXTERNAL" /\ after[sid].status = "RUNNING"
                  /\ after[sid].pid = NoPid
                  /\ get_by_port(out.w.reg, after[sid].port) = after[sid]
            /\ \A sid \in DOMAIN sessions : after[sid] = sessions[sid]

\* A scan has just registered a session, EXTERNAL on a port a foreign DevTools
\* process holds, next to a session that was stored before it.
C26_Witness ==
    /\ ret.op = "scan" /\ ret.id # 0
    /\ ret.id \in DOMAIN sessions
    /\ sessions[ret.id].origin = "EXTERNAL"
    /\ sessions[ret.id].port \in DOMAIN external
    /\ \E sid \in DOMAIN sessions : sid < ret.id

\* C27: whenever start_app_with_debugging spawns the process successfully, it
\* returns a session that is OURS and RUNNING, stored in the registry on the
\* port, tracked by the monitor and the manager's current session, whether or
\* not the port is seen open within the wait.
C27_SpawnedSessionRegisteredTrackedCurrent ==
    \A p \in Ports, answer \in ConflictActions, resp \in KillResponses, binds \in BOOLEAN :
        LET cap == check_and_prompt(World, p, answer)
            branch == start_branch(cap.action, cap.existing)
            out == start_app_with_debugging(World, p, answer, resp, TRUE, binds)
            spawns == branch = "spawn" \/ (branch = "kill" /\ resp # "stuck")
        IN  spawns =>
                /\ out.result = "session"
                /\ out.id \in DOMAIN out.w.reg.sessions
                /\ out.w.reg.sessions[out.id].origin = "OURS"
                /\ out.w.reg.sessions[out.id].status = "RUNNING"
                /\ out.w.reg.sessions[out.id].port = p
                /\ get_by_port(out.w.reg, p) = out.w.reg.sessions[out.id]
                /\ out.id \in DOMAIN out.w.processes
                /\ out.w.current = out.id

\* C28: when start_app_with_debugging takes the KILL path (the answer is KILL
\* and the existing session is OURS) and the process is spawned, the existing
\* session is out of the registry in the state the spawn starts from, and the
\* call returns a new OURS session stored on that port.
C28_KillPathReplacesOursSession ==
    \A p \in Ports, resp \in KillResponses, binds \in BOOLEAN :
        LET cap == check_and_prompt(World, p, "kill")
            branch == start_branch(cap.action, cap.existing)
            old == cap.existing.session_id
            k == kill_session(cap.w, old, resp)
            out == start_app_with_debugging(World, p, "kill", resp, TRUE, binds)
        IN  branch = "kill" =>
                /\ k.result = "true"
                /\ old \notin DOMAIN k.w.reg.sessions
                /\ old \notin DOMAIN k.w.processes
                /\ out.result = "session"
                /\ out.id # old
                /\ out.id \in DOMAIN out.w.reg.sessions
                /\ out.w.reg.sessions[out.id].origin = "OURS"
                /\ get_by_port(out.w.reg, p) = out.w.reg.sessions[out.id]

\* C29 as stated: when Popen fails, start_app_with_debugging ends with
\* SessionStartError and the registry, the tracked handles and the current
\* session are what they were before the call.
C29_SpawnFailureChangesNothing ==
    \A p \in Ports, answer \in ConflictActions, resp \in KillResponses :
        LET cap == check_and_prompt(World, p, answer)
            branch == start_branch(cap.action, cap.existing)
            out == start_app_with_debugging(World, p, answer, resp, FALSE, FALSE)
        IN  branch = "spawn" \/ (branch = "kill" /\ resp # "stuck") =>
                /\ out.result = "SessionStartError"
                /\ out.w.reg = Reg
                /\ out.w.processes = processes
                /\ out.w.current = current_session

\* C29 amended: when Popen fails, start_app_with_debugging ends with
\* SessionStartError, the current session is what it was, and nothing was
\* registered or tracked for the failed spawn: off the KILL path nothing at all
\* has changed, and on the KILL path the state is the one kill_session on the
\* existing session left.
C29_SpawnFailureAddsNothing ==
    \A p \in Ports, answer \in ConflictActions, resp \in KillResponses :
        LET cap == check_and_prompt(World, p, answer)
            branch == start_branch(cap.action, cap.existing)
            out == start_app_with_debugging(World, p, answer, resp, FALSE, FALSE)
        IN  /\ branch = "spawn" =>
                  out = [w |-> World, result |-> "SessionStartError", id |-> 0]
            /\ branch = "kill" /\ resp # "stuck" =>
                  /\ out.result = "SessionStartError"
                  /\ out.w = kill_session(World, cap.existing.session_id, resp).w
                  /\ out.w.current = current_session
                  /\ DOMAIN out.w.reg.sessions \subseteq DOMAIN sessions
                  /\ DOMAIN out.w.processes \subseteq DOMAIN processes

\* A start on the KILL path has just failed at Popen after the existing
\* session's process was signalled.
C29_Witness ==
    /\ ret.op = "start" /\ ret.result = "SessionStartError" /\ ret.arg = "kill"
    /\ signalled # {}
    /\ \A sid \in DOMAIN sessions : sessions[sid].port # ret.port

\* C30: stop_session(id) and detach_session(id), with id or else the current
\* session's id, return what the monitor's kill_session and detach_session
\* return and leave the state those left, but for the current session: it
\* becomes None exactly when the monitor returned true and the id is the
\* current session's, and is unchanged otherwise; with no id and no current
\* session they return false and change nothing.
C30_StopDetachClearCurrentOnSuccess ==
    \A sid_arg \in Ids \cup {0}, resp \in KillResponses :
        LET sid == IF sid_arg # 0 THEN sid_arg ELSE current_session
            s == stop_session(World, sid_arg, resp)
            d == driver_detach_session(World, sid_arg)
            k == kill_session(World, sid, resp)
            m == detach_session(World, sid)
            pointer(result) ==
                IF result = "true" /\ sid = current_session THEN 0 ELSE current_session
        IN  IF sid = 0
            THEN /\ s = [w |-> World, result |-> "false"]
                 /\ d = [w |-> World, result |-> "false"]
            ELSE /\ s.result = k.result
                 /\ s.w = [k.w EXCEPT !.current = pointer(k.result)]
                 /\ d.result = m.result
                 /\ d.w = [m.w EXCEPT !.current = pointer(m.result)]

\* stop_session has just killed a session and returned true: a session is
\* gone from the registry and there is no current session.
C30_Witness ==
    /\ ret.op = "stop" /\ ret.result = "true"
    /\ current_session = 0
    /\ signalled # {}
    /\ \E sid \in Ids : sid < next_id /\ sid \notin DOMAIN sessions

\* C32: kill_session on a tracked id whose process has already exited returns
\* false, as it does for an id that is not tracked.
C32_KillOfDeadProcessReturnsFalse ==
    \A sid \in Ids, resp \in KillResponses :
        /\ sid \notin DOMAIN processes => kill_session(World, sid, resp).result = "false"
        /\ sid \in DOMAIN processes /\ exited(World, processes[sid]) =>
               kill_session(World, sid, resp).result = "false"

\* C37: after start_app_with_debugging, a process the call spawned is either
\* tracked by the monitor under a session stored on the port, or was sent
\* SIGTERM by a call that ended with PortConflictError.
C37_SpawnedProcessTrackedOrTerminated ==
    \A p \in Ports, answer \in ConflictActions, resp \in KillResponses, binds \in BOOLEAN :
        LET out == start_app_with_debugging(World, p, answer, resp, TRUE, binds)
        IN  \A i \in DOMAIN out.w.spawned \ DOMAIN spawned :
                \/ /\ out.result = "session" /\ out.id = i
                   /\ get_process(out.w, i) = Proc("ours", i)
                   /\ get_by_id(out.w.reg, i) # NoSession
                   /\ get_by_id(out.w.reg, i).port = p
                \/ /\ out.result = "PortConflictError"
                   /\ get_process(out.w, i) = NoProc
                   /\ get_by_id(out.w.reg, i) = NoSession
                   /\ [proc |-> Proc("ours", i), sig |-> "SIGTERM"] \in out.w.signalled

\* A start has just ended with PortConflictError after spawning: the new
\* process, untracked and without a session, was sent SIGTERM.
C37_Witness ==
    /\ ret.op = "start" /\ ret.result = "PortConflictError"
    /\ next_id - 1 \in DOMAIN spawned
    /\ next_id - 1 \notin DOMAIN processes /\ next_id - 1 \notin DOMAIN sessions
    /\ [proc |-> Proc("ours", next_id - 1), sig |-> "SIGTERM"] \in signalled

\* C40: with auto_find_port the port find_available_port chooses is reported
\* available by check_and_prompt, so the callback is not asked, and the call
\* spawns on a port that nothing listens on and no stored session holds.
C40_AutoFoundPortIsAvailable ==
    \A p \in Ports, answer \in ConflictActions :
        LET port == find_available_port(World, p)
            cap == check_and_prompt(World, port, answer)
            out == start_app_auto_find_port(World, p, answer, "term", TRUE, FALSE)
        IN  port # 0 =>
                /\ cap.action = "available"
                /\ ~is_port_in_use(port)
                /\ \A sid \in DOMAIN sessions : sessions[sid].port # port
                /\ out.result = "session"

\* C5: start_app_with_debugging spawns a process only when the port was
\* reported available or the answer was KILL on an existing session of origin
\* OURS; in every other case no process is spawned, none is tracked and no
\* session of origin OURS is registered.
C5_SpawnOnlyIfAvailableOrKillOurs ==
    [][\A p \in Ports, a \in ConflictActions :
          Start(p, a) =>
            LET cap == check_and_prompt(World, p, a)
            IN  \/ cap.action = "available"
                \/ /\ cap.action = "kill"
                   /\ cap.existing # NoSession /\ cap.existing.origin = "OURS"
                \/ /\ DOMAIN spawned' \subseteq DOMAIN spawned
                   /\ DOMAIN processes' \subseteq DOMAIN processes
                   /\ \A i \in DOMAIN sessions' \ DOMAIN sessions :
                         sessions'[i].origin = "EXTERNAL"]_vars

\* C7: a poll cycle that finds a tracked process exited and its session stored
\* removes the handle from tracking, removes the session from the registry and
\* calls on_termination once, with the session (status TERMINATED) and the
\* process's returncode; on_termination is never called twice for a session.
C7_PollCycleReconcilesExit ==
    [][/\ PollCycle =>
            \A sid \in DOMAIN processes :
                (exited(World, processes[sid]) /\ sid \in DOMAIN sessions) =>
                    /\ sid \notin DOMAIN processes'
                    /\ sid \notin DOMAIN sessions'
                    /\ \A p \in DOMAIN port_index' : port_index'[p] # sid
                    /\ callbacks'[sid] =
                          <<[session |-> [sessions[sid] EXCEPT !.status = "TERMINATED"],
                             returncode |-> spawned[processes[sid].n].returncode]>>
       /\ \A sid \in Ids :
            callbacks'[sid] # <<>> => (Len(callbacks'[sid]) = 1 /\ sid \notin notified)]_vars

\* A poll cycle has just reported the exit, with code 1, of a process that
\* exited on its own.
C7_Witness ==
    /\ ret.op = "poll"
    /\ \E sid \in Ids :
          /\ Len(callbacks[sid]) = 1 /\ callbacks[sid][1].returncode = 1
          /\ callbacks[sid][1].session.session_id = sid
          /\ sid \in notified
          /\ sid \notin DOMAIN processes /\ sid \notin DOMAIN sessions

\* ------------------------------------------------------------ SpecMonitor
\* The most registrations of a hook the model counts.
MaxHooks == 2

\* _check_processes with an on_termination that raises an Exception for the
\* sessions in raises. catches: the except clause of the call matches it.
\* [w, result, printed]: result "ok" or the exception that leaves the cycle,
\* printed the sessions whose "Error in termination callback" was printed.
RECURSIVE poll_from(_, _, _, _, _)
poll_from(w, ids, raises, printed, catches) ==
    IF ids = {} THEN [w |-> w, result |-> "ok", printed |-> printed]
    ELSE LET sid == CHOOSE i \in ids : \A j \in ids : i <= j
             h == get_process(w, sid)
             w1 == untrack_process(w, sid)
             session == get_by_id(w1.reg, sid)
             w2 == [w1 EXCEPT
                      !.reg = update_status(@, sid, "TERMINATED"),
                      !.callbacks[sid] = Append(@,
                          [session |-> [session EXCEPT !.status = "TERMINATED"],
                           returncode |-> w.spawned[h.n].returncode])]
         IN  IF h = NoProc \/ ~exited(w, h)
             THEN poll_from(w, ids \ {sid}, raises, printed, catches)
             ELSE IF session = NoSession
             THEN poll_from(w1, ids \ {sid}, raises, printed, catches)
             ELSE IF sid \notin raises
             THEN poll_from(w2, ids \ {sid}, raises, printed, catches)
             ELSE IF catches
             THEN poll_from(w2, ids \ {sid}, raises, printed \cup {sid}, catches)
             ELSE [w |-> w2, result |-> "Exception", printed |-> printed]

\* A poll cycle that calls on_termination outside any try.
_check_processes_uncaught(w, raises) ==
    poll_from(w, DOMAIN w.processes, raises, {}, FALSE)

\* _check_processes, the callback called under try ... except Exception.
_check_processes_on_termination(w, raises) ==
    poll_from(w, DOMAIN w.processes, raises, {}, TRUE)

\* start() that registers its hooks on every call.
start_registers_always(m, ctx) ==
    IF m.thread = "alive" THEN m
    ELSE [m EXCEPT !.stop_event = FALSE, !.thread = "alive",
                   !.atexit = @ + 1,
                   !.signal_handlers = IF ctx = "main" THEN @ + 1 ELSE @,
                   !.handlers_registered = TRUE]

\* ProcessMonitor.start, called on thread ctx ("main": the main thread).
start(m, ctx) ==
    IF m.thread = "alive" THEN m
    ELSE LET m1 == [m EXCEPT !.stop_event = FALSE, !.thread = "alive"]
         IN  IF m1.handlers_registered THEN m1
             ELSE [m1 EXCEPT !.atexit = @ + 1,
                             !.signal_handlers = IF ctx = "main" THEN @ + 1 ELSE @,
                             !.handlers_registered = TRUE]

\* ProcessMonitor.stop; joined: the thread ends within the join's timeout.
stop(m, joined) ==
    [m EXCEPT !.stop_event = TRUE,
              !.thread = IF @ = "alive" /\ joined THEN "finished" ELSE @]

MStart(ctx) ==
    /\ monitor.atexit < MaxHooks
    /\ monitor' = start(monitor, ctx)
    /\ ret' = RetArg("monitor_start", 0, 0, "ok", ctx)
    /\ NoLog
    /\ UNCHANGED <<regVars, diskOk, external, monVars, race, persist, threads, locking, driver_cache, managers>>

MStop(joined) ==
    /\ monitor' = stop(monitor, joined)
    /\ ret' = RetArg("monitor_stop", 0, 0, "ok", "")
    /\ NoLog
    /\ UNCHANGED <<regVars, diskOk, external, monVars, race, persist, threads, locking, driver_cache, managers>>

\* _monitor_loop, one turn: the thread ends when the stop event is set, and
\* otherwise runs a poll cycle; an exception leaving the cycle ends the thread.
MonitorLoop(raises) ==
    /\ monitor.thread = "alive"
    /\ IF monitor.stop_event
       THEN /\ monitor' = [monitor EXCEPT !.thread = "finished"]
            /\ ret' = RetArg("loop", 0, 0, "return", "")
            /\ NoLog
            /\ UNCHANGED <<regVars, diskOk, external, monVars, race, persist, threads, locking, driver_cache, managers>>
       ELSE \E out \in {_check_processes_on_termination(World, raises)} :
            /\ SetWorld(out.w)
            /\ monitor' = [monitor EXCEPT
                             !.thread = IF out.result = "ok" THEN @ ELSE "crashed"]
            /\ ret' = RetArg("loop",
                            IF out.printed = {} THEN 0
                            ELSE CHOOSE i \in out.printed : \A j \in out.printed : i <= j,
                            0, out.result,
                            IF out.printed # {} THEN "printed" ELSE "")
            /\ UNCHANGED <<diskOk, race, persist, threads, locking, driver_cache, managers>>

NextMonitor ==
    \/ \E ctx \in {"main", "other"} : MStart(ctx)
    \/ \E joined \in BOOLEAN : MStop(joined)
    \/ \E raises \in SUBSET Ids : MonitorLoop(raises)
    \/ \E p \in Ports : Start(p, "cancel")
    \/ \E i \in Ids, code \in {0, 1} : ProcessExit(i, code)

SpecMonitor == Init /\ [][NextMonitor]_vars

\* C22: an exception the termination callback raises does not leave the poll
\* cycle: whichever sessions the callback raises for, the cycle ends normally
\* with every exited tracked process untracked, its session out of the
\* registry and the callback called once for it, and the monitor thread is
\* never ended by an exception, so later cycles run.
C22_CallbackExceptionStaysInPollCycle ==
    /\ monitor.thread # "crashed"
    /\ \A raises \in SUBSET Ids :
          LET out == _check_processes_on_termination(World, raises)
          IN  /\ out.result = "ok"
              /\ \A sid \in DOMAIN processes :
                    exited(World, processes[sid]) =>
                        /\ sid \notin DOMAIN out.w.processes
                        /\ sid \notin DOMAIN out.w.reg.sessions
                        /\ sid \in DOMAIN sessions => Len(out.w.callbacks[sid]) = 1
                        /\ sid \in DOMAIN sessions /\ sid \in raises => sid \in out.printed

\* One cycle reconciled sessions 1 and 2, the callback raised for session 1,
\* and the thread is alive.
C22_Witness ==
    /\ ret.op = "loop" /\ ret.arg = "printed" /\ ret.id = 1
    /\ callbacks[1] # <<>> /\ callbacks[2] # <<>>
    /\ 1 \notin DOMAIN sessions /\ 2 \notin DOMAIN sessions
    /\ 2 \notin DOMAIN processes
    /\ monitor.thread = "alive"

\* C23: over any sequence of start() and stop() calls the atexit hook is
\* registered at most once and the signal handlers are installed at most once,
\* and a step installs the signal handlers only if it is a start() called on
\* the main thread.
C23_ShutdownHooksInstalledOnce ==
    [][/\ monitor'.atexit <= 1
       /\ monitor'.signal_handlers <= 1
       /\ monitor'.signal_handlers # monitor.signal_handlers =>
              ret'.op = "monitor_start" /\ ret'.arg = "main"]_vars

\* start() has just been called on the main thread after an earlier start()
\* off the main thread: the atexit hook is registered once and no signal
\* handler is installed.
C23_Witness ==
    /\ ret.op = "monitor_start" /\ ret.arg = "main"
    /\ monitor.thread = "alive" /\ monitor.handlers_registered
    /\ monitor.atexit = 1 /\ monitor.signal_handlers = 0

\* C38: when start() has returned the poll loop is running (the thread is alive
\* and the stop event is clear), and a running loop keeps running over every
\* step that is not a stop() call.
C38_LoopRunsFromStartToStop ==
    /\ [](ret.op = "monitor_start" => monitor.thread = "alive" /\ ~monitor.stop_event)
    /\ [][monitor.thread = "alive" /\ ~monitor.stop_event /\ ret'.op # "monitor_stop" =>
              monitor'.thread = "alive" /\ ~monitor'.stop_event]_vars

\* -------------------------------------------------------------- SpecLocking
\* What each method does to the two locks, in order: acq_mon/rel_mon enter and
\* leave a "with self._lock" of the monitor (a threading.Lock, not reentrant),
\* acq_reg/rel_reg one of the registry (an RLock); cb_in/cb_out are the call of
\* on_termination and its return.
get_process_locks == <<"acq_mon", "rel_mon">>

untrack_process_locks == <<"acq_mon", "rel_mon">>

track_process_locks == <<"acq_mon", "rel_mon">>

get_by_id_locks == <<"acq_reg", "rel_reg">>

register_locks == <<"acq_reg", "rel_reg">>

\* update_status calls unregister, which takes the RLock again, for TERMINATED.
update_status_locks(status) ==
    IF status = "TERMINATED" THEN <<"acq_reg", "acq_reg", "rel_reg", "rel_reg">>
    ELSE <<"acq_reg", "rel_reg">>

\* kill_session; found: a handle is tracked for the id.
kill_session_locks(found) ==
    IF found
    THEN get_process_locks \o untrack_process_locks \o update_status_locks("TERMINATED")
    ELSE get_process_locks

detach_session_locks(found) ==
    IF found THEN untrack_process_locks \o update_status_locks("DETACHED")
    ELSE untrack_process_locks

\* What an on_termination callback may call.
CallbackCalls ==
    {"nothing", "get_process", "kill_session", "detach_session", "track_process",
     "get_by_id", "update_status", "register"}

call_locks(call, found) ==
    CASE call = "get_process" -> get_process_locks
      [] call = "kill_session" -> kill_session_locks(found)
      [] call = "detach_session" -> detach_session_locks(found)
      [] call = "track_process" -> track_process_locks
      [] call = "get_by_id" -> get_by_id_locks
      [] call = "update_status" -> update_status_locks("TERMINATED")
      [] call = "register" -> register_locks
      [] OTHER -> <<>>

\* A poll cycle that keeps the monitor's lock from the snapshot to the end.
_check_processes_locks_held(has_exited, stored, call, found) ==
    <<"acq_mon">>
    \o (IF ~has_exited THEN <<>>
        ELSE get_by_id_locks
             \o (IF ~stored THEN <<>>
                 ELSE update_status_locks("TERMINATED")
                      \o <<"cb_in">> \o call_locks(call, found) \o <<"cb_out">>))
    \o <<"rel_mon">>

\* _check_processes over one tracked id: the snapshot, the get, and for a
\* process that has exited the pop, get_by_id, and for a stored session
\* update_status and the callback, which calls call.
_check_processes_locks(has_exited, stored, call, found) ==
    <<"acq_mon", "rel_mon">> \o <<"acq_mon", "rel_mon">>
    \o (IF ~has_exited THEN <<>>
        ELSE <<"acq_mon", "rel_mon">> \o get_by_id_locks
             \o (IF ~stored THEN <<>>
                 ELSE update_status_locks("TERMINATED")
                      \o <<"cb_in">> \o call_locks(call, found) \o <<"cb_out">>))

SetLocking(l, op, t) ==
    /\ locking' = l
    /\ ret' = RetArg("locking", t, 0, "ok", op)
    /\ NoLog
    /\ UNCHANGED <<regVars, diskOk, external, monVars, race, persist, threads, monitor, driver_cache, managers>>

\* The monitor thread (thread 1) begins a poll cycle.
LPoll(has_exited, stored, call, found) ==
    /\ locking.prog[1] = <<>>
    /\ SetLocking([locking EXCEPT
                      !.prog[1] = _check_processes_locks(has_exited, stored, call, found)],
                  "_check_processes", 1)

\* The caller's thread (thread 2) calls a method of the monitor or the registry.
LCall(call, found) ==
    /\ locking.prog[2] = <<>>
    /\ call # "nothing"
    /\ SetLocking([locking EXCEPT !.prog[2] = call_locks(call, found)], call, 2)

\* Thread t cannot take the lock its next statement asks for.
Blocked(t) ==
    /\ locking.prog[t] # <<>>
    /\ \/ Head(locking.prog[t]) = "acq_mon" /\ locking.mon # 0
       \/ Head(locking.prog[t]) = "acq_reg" /\ locking.reg.owner \notin {0, t}

\* Thread t executes its next statement.
LStep(t) ==
    /\ locking.prog[t] # <<>>
    /\ ~Blocked(t)
    /\ LET i == Head(locking.prog[t])
           l == [locking EXCEPT !.prog[t] = Tail(@)]
       IN  SetLocking(
              CASE i = "acq_mon" -> [l EXCEPT !.mon = t]
                [] i = "rel_mon" -> [l EXCEPT !.mon = 0]
                [] i = "acq_reg" -> [l EXCEPT !.reg = [owner |-> t, count |-> @.count + 1]]
                [] i = "rel_reg" -> [l EXCEPT !.reg = IF @.count = 1
                                                      THEN [owner |-> 0, count |-> 0]
                                                      ELSE [@ EXCEPT !.count = @ - 1]]
                [] i = "cb_in" -> [l EXCEPT !.in_cb[t] = TRUE]
                [] OTHER -> [l EXCEPT !.in_cb[t] = FALSE],
              i, t)

NextLocking ==
    \/ \E has_exited \in BOOLEAN, stored \in BOOLEAN, call \in CallbackCalls, found \in BOOLEAN :
          LPoll(has_exited, stored, call, found)
    \/ \E call \in CallbackCalls, found \in BOOLEAN : LCall(call, found)
    \/ \E t \in Threads : LStep(t)

SpecLocking == Init /\ [][NextLocking]_vars

\* The lock thread t waits for is held by a thread that is itself waiting.
Stuck(t) ==
    /\ Blocked(t)
    /\ LET holder == IF Head(locking.prog[t]) = "acq_mon" THEN locking.mon
                     ELSE locking.reg.owner
       IN  Blocked(holder)

\* C35: a thread that holds the monitor's lock neither holds nor asks for the
\* registry's lock, does not ask for the monitor's lock again and is not about
\* to call on_termination; and no thread ever waits for a lock whose holder is
\* itself waiting: whatever the callback calls, every wait ends.
C35_MonitorLockNeverHeldAcrossCalls ==
    \A t \in Threads :
        /\ locking.mon = t =>
              /\ locking.reg.owner # t
              /\ locking.prog[t] # <<>>
              /\ Head(locking.prog[t]) \notin {"acq_reg", "acq_mon", "cb_in"}
        /\ ~Stuck(t)

\* The monitor thread is inside a callback that calls back into the monitor,
\* and waits for the lock the caller's thread holds.
C35_Witness ==
    /\ locking.in_cb[1]
    /\ Blocked(1) /\ Head(locking.prog[1]) = "acq_mon"
    /\ locking.mon = 2

\* ---------------------------------------------------------------- SpecCache
\* The versions a framework binary may embed and the paths selenium-manager
\* may report.
MaxVersion == 2
Versions == 1..MaxVersion
DriverPaths == 1..MaxVersion

\* The framework binary on disk: missing, without a "Chrome/x.y.z.w Electron/"
\* string, or embedding a version.
Missing == 0
NoPattern == 0 - 1
Frameworks == {Missing, NoPattern} \cup Versions

\* How the scan of the framework binary ends: the file is missing, strings
\* times out, its output holds no version, or it holds one.
scan_outcome(framework, timeout) ==
    IF framework = Missing THEN "missing"
    ELSE IF timeout THEN "timeout"
    ELSE IF framework = NoPattern THEN "nomatch"
    ELSE "match"

\* How selenium-manager ends: it is not found, it times out, exits non-zero,
\* prints no JSON, prints JSON without a driver_path, or prints one.
UtilityOutcomes == {"nomanager", "timeout", "nonzero", "badjson", "nopath", "path"}
Utilities == [outcome : UtilityOutcomes, path : DriverPaths]

\* get_chrome_version that scans the binary on every call.
get_chrome_version_uncached(c, timeout) ==
    LET scan == scan_outcome(c.framework, timeout)
    IN  IF scan = "match"
        THEN [c |-> [c EXCEPT !.chrome_version = c.framework], result |-> "ok",
              value |-> c.framework, scanned |-> TRUE]
        ELSE [c |-> c, result |-> "ChromeVersionError", value |-> 0,
              scanned |-> scan # "missing"]

\* get_chrome_version: [c, result, value, scanned]; scanned: strings was run.
get_chrome_version(c, timeout) ==
    LET scan == scan_outcome(c.framework, timeout)
    IN  IF c.chrome_version # 0
        THEN [c |-> c, result |-> "ok", value |-> c.chrome_version, scanned |-> FALSE]
        ELSE IF scan = "match"
        THEN [c |-> [c EXCEPT !.chrome_version = c.framework], result |-> "ok",
              value |-> c.framework, scanned |-> TRUE]
        ELSE [c |-> c, result |-> "ChromeVersionError", value |-> 0,
              scanned |-> scan # "missing"]

\* install(force): [c, result, value, scanned, ran]; ran: the utility was
\* looked for and, when found, run.
install(c, force, timeout, util) ==
    LET v == get_chrome_version(c, timeout)
    IN  IF c.driver_path # 0 /\ ~force
        THEN [c |-> c, result |-> "ok", value |-> c.driver_path,
              scanned |-> FALSE, ran |-> FALSE]
        ELSE IF v.result # "ok"
        THEN [c |-> v.c, result |-> v.result, value |-> 0,
              scanned |-> v.scanned, ran |-> FALSE]
        ELSE IF util.outcome = "path"
        THEN [c |-> [v.c EXCEPT !.driver_path = util.path], result |-> "ok",
              value |-> util.path, scanned |-> v.scanned, ran |-> TRUE]
        ELSE [c |-> v.c, result |-> "DriverInstallError", value |-> 0,
              scanned |-> v.scanned, ran |-> TRUE]

SetCache(c, op, value, result, flags) ==
    /\ driver_cache' = c
    /\ ret' = RetArg(op, value, 0, result, flags)
    /\ NoLog
    /\ UNCHANGED <<regVars, diskOk, external, monVars, race, persist, threads, monitor, locking, managers>>

GetChromeVersion(timeout) ==
    \E out \in {get_chrome_version(driver_cache, timeout)} :
        SetCache(out.c, "get_chrome_version", out.value, out.result,
                 <<out.scanned, FALSE, FALSE>>)

Install(force, timeout, util) ==
    \E out \in {install(driver_cache, force, timeout, util)} :
        SetCache(out.c, "install", out.value, out.result,
                 <<out.scanned, out.ran, force>>)

\* The application on disk is replaced, upgraded or removed.
ReplaceFramework(framework) ==
    /\ framework # driver_cache.framework
    /\ SetCache([driver_cache EXCEPT !.framework = framework], "env", 0, "ok",
                <<FALSE, FALSE, FALSE>>)

NextCache ==
    \/ \E timeout \in BOOLEAN : GetChromeVersion(timeout)
    \/ \E force \in BOOLEAN, timeout \in BOOLEAN, util \in Utilities :
          Install(force, timeout, util)
    \/ \E framework \in Frameworks : ReplaceFramework(framework)

SpecCache == Init /\ [][NextCache]_vars

\* C31: with a version cached, get_chrome_version returns it without running
\* the scan, whatever the binary now holds; with a driver path cached,
\* install() returns it without running the scan or the utility, and
\* install(force=True) turns to the utility again; a call that fails leaves
\* the caches as they were (an install that fails at the utility keeps the
\* version it resolved), and with nothing cached a call is answered by the
\* scan or the utility, never from a cache.
C31_ResultsCachedPerManager ==
    \A timeout \in BOOLEAN, util \in Utilities, force \in BOOLEAN :
        LET g == get_chrome_version(driver_cache, timeout)
            i == install(driver_cache, force, timeout, util)
            scan == scan_outcome(driver_cache.framework, timeout)
        IN  /\ driver_cache.chrome_version # 0 =>
                  g = [c |-> driver_cache, result |-> "ok",
                       value |-> driver_cache.chrome_version, scanned |-> FALSE]
            /\ driver_cache.driver_path # 0 /\ ~force =>
                  i = [c |-> driver_cache, result |-> "ok",
                       value |-> driver_cache.driver_path,
                       scanned |-> FALSE, ran |-> FALSE]
            /\ driver_cache.driver_path # 0 /\ force => i.ran /\ ~i.scanned
            /\ g.result # "ok" => g.c = driver_cache
            /\ i.result # "ok" => i.c.driver_path = driver_cache.driver_path
            /\ i.result = "DriverInstallError" => i.c.chrome_version = g.c.chrome_version
            /\ i.result = "ChromeVersionError" => i.c = driver_cache
            /\ driver_cache.chrome_version = 0 =>
                  /\ g.result = "ok" <=> scan = "match"
                  /\ g.result = "ok" => g.value = driver_cache.framework /\ g.scanned
            /\ driver_cache.driver_path = 0 /\ i.result = "ok" =>
                  i.ran /\ i.value = util.path

\* install() has just returned the cached path without scan or utility, and
\* get_chrome_version would return the cached version though the binary on
\* disk now embeds another.
C31_Witness ==
    /\ ret.op = "install" /\ ret.result = "ok"
    /\ ret.arg = <<FALSE, FALSE, FALSE>>
    /\ ret.id = driver_cache.driver_path /\ ret.id # 0
    /\ driver_cache.framework \in Versions
    /\ driver_cache.chrome_version # driver_cache.framework

\* ------------------------------------------------------------- SpecManagers
\* get_monitor(registry): the singleton, built over registry by the first call
\* only. [g, monitor]
get_monitor(g, registry) ==
    LET g1 == IF g.global_monitor = 0 THEN [g EXCEPT !.global_monitor = registry] ELSE g
    IN  [g |-> g1, monitor |-> g1.global_monitor]

\* ElectronDriverManager.__init__(registry=..., monitor=...): registry_arg 0 is
\* None; own_monitor: the caller passes a ProcessMonitor built over the
\* manager's registry.
manager_init(g, m, registry_arg, own_monitor) ==
    LET registry == IF registry_arg # 0 THEN registry_arg ELSE GlobalRegistry
        gm == get_monitor(g, registry)
    IN  IF own_monitor
        THEN [g EXCEPT !.mgr[m] = [registry |-> registry, monitor |-> registry]]
        ELSE [gm.g EXCEPT !.mgr[m] = [registry |-> registry, monitor |-> gm.monitor]]

\* start_app_with_debugging of manager m: self._registry.register(session);
\* self._monitor.track_process(session, proc)
manager_start(g, m, sid) ==
    [g EXCEPT !.stored[g.mgr[m].registry] = @ \cup {sid},
              !.tracked = @ \cup {sid},
              !.started[m] = @ \cup {sid}]

\* The monitor of manager m kills session sid or finds its process exited: the
\* handle is untracked and self._registry.update_status(sid, TERMINATED)
\* removes the session from the monitor's registry.
manager_reconcile(g, m, sid) ==
    [g EXCEPT !.tracked = @ \ {sid},
              !.stored[g.mgr[m].monitor] = @ \ {sid},
              !.reconciled = @ \cup {sid}]

SetManagers(g, op, m, sid) ==
    /\ managers' = g
    /\ ret' = RetArg(op, sid, 0, "ok", m)
    /\ NoLog
    /\ UNCHANGED <<regVars, diskOk, external, monVars, race, persist, threads, monitor,
                   locking, driver_cache>>

MInit(m, registry_arg, own_monitor) ==
    /\ managers.mgr[m].registry = 0
    /\ SetManagers(manager_init(managers, m, registry_arg, own_monitor), "manager_init", m, 0)

MStartSession(m, sid) ==
    /\ managers.mgr[m].registry # 0
    /\ \A n \in Managers : sid \notin managers.started[n]
    /\ \A i \in Ids : i < sid => \E n \in Managers : i \in managers.started[n]
    /\ SetManagers(manager_start(managers, m, sid), "manager_start", m, sid)

\* stop_session of manager m, or a poll cycle of its monitor after the exit.
MReconcile(m, sid) ==
    /\ sid \in managers.started[m] /\ sid \in managers.tracked
    /\ SetManagers(manager_reconcile(managers, m, sid), "manager_reconcile", m, sid)

NextManagers ==
    \/ \E m \in Managers, registry_arg \in Registries \cup {0}, own_monitor \in BOOLEAN :
          MInit(m, registry_arg, own_monitor)
    \/ \E m \in Managers, sid \in Ids : MStartSession(m, sid)
    \/ \E m \in Managers, sid \in Ids : MReconcile(m, sid)

SpecManagers == Init /\ [][NextManagers]_vars

SetRace(w, r) ==
    /\ SetReg(w.reg)
    /\ processes' = w.processes
    /\ spawned' = w.spawned
    /\ signalled' = signalled \cup w.signalled
    /\ callbacks' = [i \in Ids |-> callbacks[i] \o w.callbacks[i]]
    /\ notified' = notified \cup {i \in Ids : w.callbacks[i] # <<>>}
    /\ race' = r
    /\ ret' = Ret("race", 0, 0, "ok")
    /\ UNCHANGED <<diskOk, external, current_session, next_id, persist, threads, monitor, locking, driver_cache, managers>>

\* One update_status(sid, TERMINATED) call and what it returned.
Updated(by, sid) == [by |-> by, sid |-> sid, ok |-> sid \in DOMAIN sessions]

\* with self._lock: proc = self._processes.get(session_id); if not proc: return False
KGet ==
    /\ race.kpc = "get"
    /\ LET h == get_process(World, race.kid)
       IN  SetRace(World, IF h = NoProc
                          THEN [race EXCEPT !.kpc = "done", !.kres = "false"]
                          ELSE [race EXCEPT !.kpc = "terminate", !.kproc = h])

\* terminate() that sends the force-kill along with the graceful signal.
KTerminate_with_kill(oserror) ==
    /\ race.kpc = "terminate"
    /\ IF exited(World, race.kproc) THEN ~oserror /\ SetRace(World, [race EXCEPT !.kpc = "wait"])
       ELSE IF oserror THEN SetRace(World, [race EXCEPT !.kpc = "done", !.kres = "false"])
       ELSE SetRace(signal(World, race.kproc, {"SIGTERM", "SIGKILL"}),
                    [race EXCEPT !.kpc = "wait"])

\* proc.terminate(): SIGTERM unless the process is known to have exited; it may
\* raise OSError, which kill_session turns into False.
KTerminate(oserror) ==
    /\ race.kpc = "terminate"
    /\ IF exited(World, race.kproc) THEN ~oserror /\ SetRace(World, [race EXCEPT !.kpc = "wait"])
       ELSE IF oserror THEN SetRace(World, [race EXCEPT !.kpc = "done", !.kres = "false"])
       ELSE SetRace(signal(World, race.kproc, {"SIGTERM"}), [race EXCEPT !.kpc = "wait"])

\* proc.wait(timeout=timeout): returns once the process has exited, or the
\* timeout expires with the process alive.
KWait ==
    /\ race.kpc = "wait"
    /\ SetRace(World, IF exited(World, race.kproc)
                      THEN [race EXCEPT !.kpc = "untrack", !.ksaw = TRUE]
                      ELSE [race EXCEPT !.kpc = "kill"])

\* proc.kill(): SIGKILL unless the process is known to have exited.
KKill ==
    /\ race.kpc = "kill"
    /\ SetRace(IF exited(World, race.kproc) THEN World
               ELSE signal(World, race.kproc, {"SIGKILL"}),
               [race EXCEPT !.kpc = "wait1"])

\* proc.wait(timeout=1.0): TimeoutExpired leaves kill_session when the process
\* is still alive.
KWait1 ==
    /\ race.kpc = "wait1"
    /\ SetRace(World, IF exited(World, race.kproc)
                      THEN [race EXCEPT !.kpc = "untrack", !.ksaw = TRUE]
                      ELSE [race EXCEPT !.kpc = "done", !.kres = "TimeoutExpired"])

\* self.untrack_process(session_id)
KUntrack ==
    /\ race.kpc = "untrack"
    /\ SetRace(untrack_process(World, race.kid), [race EXCEPT !.kpc = "update"])

\* kill_session that also reports the termination to on_termination.
KUpdate_notifies ==
    /\ race.kpc = "update"
    /\ SetRace([World EXCEPT !.reg = update_status(@, race.kid, "TERMINATED"),
                             !.callbacks[race.kid] =
                                 Append(@, [session |-> NoSession, returncode |-> 0])],
               [race EXCEPT !.kpc = "done", !.kres = "true",
                            !.upd = Append(@, Updated("kill", race.kid))])

\* self._registry.update_status(session_id, TERMINATED); return True
KUpdate ==
    /\ race.kpc = "update"
    /\ SetRace([World EXCEPT !.reg = update_status(@, race.kid, "TERMINATED")],
               [race EXCEPT !.kpc = "done", !.kres = "true",
                            !.upd = Append(@, Updated("kill", race.kid))])

\* detach_session: proc = self.untrack_process(session_id); if proc: ... return False
DUntrack ==
    /\ race.kpc = "d_untrack"
    /\ LET h == get_process(World, race.kid)
       IN  SetRace(untrack_process(World, race.kid),
                   IF h = NoProc THEN [race EXCEPT !.kpc = "done", !.kres = "false"]
                   ELSE [race EXCEPT !.kpc = "d_update", !.kproc = h])

\* detach_session: self._registry.update_status(session_id, DETACHED); return True
DUpdate ==
    /\ race.kpc = "d_update"
    /\ SetRace([World EXCEPT !.reg = update_status(@, race.kid, "DETACHED")],
               [race EXCEPT !.kpc = "done", !.kres = "true"])

\* untrack_process(session_id), called on its own.
UUntrack ==
    /\ race.kpc = "u_untrack"
    /\ SetRace(untrack_process(World, race.kid), [race EXCEPT !.kpc = "done"])

\* The ids of a set, ascending: list(self._processes.keys()) of a dict whose
\* keys were inserted in the order the sessions were started.
RECURSIVE Ascending(_)
Ascending(S) ==
    IF S = {} THEN <<>>
    ELSE LET m == CHOOSE x \in S : \A y \in S : x <= y
         IN  <<m>> \o Ascending(S \ {m})

\* The monitor thread goes on to the next id of its snapshot.
PNext(r) ==
    IF Len(r.pids) <= 1 THEN [r EXCEPT !.ppc = "done", !.pids = <<>>]
    ELSE [r EXCEPT !.ppc = "get", !.pids = Tail(@)]

\* with self._lock: session_ids = list(self._processes.keys())
PSnapshot ==
    /\ race.ppc = "snapshot"
    /\ LET ids == Ascending(DOMAIN processes)
       IN  SetRace(World, [race EXCEPT !.pids = ids,
                                       !.ppc = IF ids = <<>> THEN "done" ELSE "get"])

\* with self._lock: proc = self._processes.get(session_id); if proc is None: continue
PGet ==
    /\ race.ppc = "get"
    /\ LET h == get_process(World, Head(race.pids))
       IN  SetRace(World, IF h = NoProc THEN PNext(race)
                          ELSE [race EXCEPT !.ppc = "poll", !.pproc = h])

\* returncode = proc.poll(); if returncode is not None:
PPoll ==
    /\ race.ppc = "poll"
    /\ SetRace(World, IF exited(World, race.pproc)
                      THEN [race EXCEPT !.ppc = "pop",
                                        !.pcode = spawned[race.pproc.n].returncode,
                                        !.pseen = @ \cup {Head(race.pids)}]
                      ELSE PNext(race))

\* with self._lock: self._processes.pop(session_id, None)
PPop ==
    /\ race.ppc = "pop"
    /\ SetRace(untrack_process(World, Head(race.pids)), [race EXCEPT !.ppc = "lookup"])

\* session = self._registry.get_by_id(session_id); if session:
PLookup ==
    /\ race.ppc = "lookup"
    /\ LET s == get_by_id(Reg, Head(race.pids))
       IN  SetRace(World, IF s = NoSession THEN PNext(race)
                          ELSE [race EXCEPT !.ppc = "update", !.psession = s])

\* self._registry.update_status(session_id, TERMINATED)
PUpdate ==
    /\ race.ppc = "update"
    /\ SetRace([World EXCEPT !.reg = update_status(@, Head(race.pids), "TERMINATED")],
               [race EXCEPT !.ppc = "callback",
                            !.upd = Append(@, Updated("poll", Head(race.pids)))])

\* self._on_termination(session, returncode): session is the stored object,
\* whose status one of the two update_status calls has set by now.
PCallback ==
    /\ race.ppc = "callback"
    /\ SetRace([World EXCEPT !.callbacks[Head(race.pids)] =
                   Append(@, [session |-> [race.psession EXCEPT !.status = "TERMINATED"],
                              returncode |-> race.pcode])],
               PNext(race))

\* _monitor_loop: the cycle is over and the next one begins.
PAgain ==
    /\ race.ppc = "done"
    /\ SetRace(World, [race EXCEPT !.ppc = "snapshot"])

\* A process exits: of a signal it was sent, or on its own with code 0.
RaceExit(i) ==
    /\ i \in DOMAIN spawned /\ spawned[i].state = "alive"
    /\ LET sigs == {e.sig : e \in {x \in signalled : x.proc = Proc("ours", i)}}
           code == IF "SIGKILL" \in sigs THEN 0 - 9 ELSE IF "SIGTERM" \in sigs THEN 0 - 15 ELSE 0
       IN  SetRace(die(World, Proc("ours", i), code), race)

\* Every id has a session of origin OURS, stored, persisted and tracked, and
\* its process is alive; kill_session, detach_session or untrack_process is
\* called for one of them as a poll cycle begins.
InitRace ==
    /\ sessions = [i \in Ids |-> Session(i, i, "OURS", PidOf(i))]
    /\ port_index = [p \in Ids |-> p]
    /\ disk = File({to_dict(Session(i, i, "OURS", PidOf(i))) : i \in Ids})
    /\ diskOk = TRUE
    /\ external = Empty
    /\ spawned = [i \in Ids |-> [port |-> i, state |-> "alive",
                                 listening |-> TRUE, returncode |-> 0]]
    /\ processes = [i \in Ids |-> Proc("ours", i)]
    /\ current_session = MaxId
    /\ next_id = MaxId + 1
    /\ signalled = {}
    /\ callbacks = NoCalls
    /\ notified = {}
    /\ ret = Ret("init", 0, 0, "ok")
    /\ \E k \in Ids, call \in {"get", "d_untrack", "u_untrack"} :
          race = [NoRace EXCEPT !.kpc = call, !.kid = k, !.ppc = "snapshot"]
    /\ persist = NoPersist
    /\ threads = NoThreads
    /\ managers = NoManagers
    /\ driver_cache = NoCache
    /\ locking = NoLocking
    /\ monitor = NoMonitor

NextRace ==
    \/ KGet
    \/ \E oserror \in BOOLEAN : KTerminate(oserror)
    \/ KWait
    \/ KKill
    \/ KWait1
    \/ KUntrack
    \/ KUpdate
    \/ DUntrack
    \/ DUpdate
    \/ UUntrack
    \/ PSnapshot
    \/ PGet
    \/ PPoll
    \/ PPop
    \/ PLookup
    \/ PUpdate
    \/ PCallback
    \/ PAgain
    \/ \E i \in Ids : RaceExit(i)

SpecRace == InitRace /\ [][NextRace]_vars

\* ----------------------------------------------------- properties of the race
\* Both threads have returned; kill_session saw the process exit and the poll
\* cycle observed the exit of the same process.
RaceOver ==
    /\ race.kpc = "done" /\ race.ppc = "done"
    /\ race.ksaw /\ race.kid \in race.pseen

\* The update_status(kid, TERMINATED) calls the two paths made, in order.
RaceUpdates == SelectSeq(race.upd, LAMBDA u : u.sid = race.kid)

\* C6: when kill_session(kid) and a poll cycle both see the process exit, every
\* interleaving ends with the session in neither the registry nor the tracked
\* handles, kill_session returns True and raises nothing, and exactly one
\* update_status(kid, TERMINATED) call unregisters: the other path finds the
\* session absent and changes nothing.
C6_KillAndPollReconcileOnce ==
    RaceOver =>
        /\ race.kid \notin DOMAIN sessions
        /\ \A p \in DOMAIN port_index : port_index[p] # race.kid
        /\ race.kid \notin DOMAIN processes
        /\ race.kres = "true"
        /\ Len(RaceUpdates) \in {1, 2}
        /\ Cardinality({n \in 1..Len(RaceUpdates) : RaceUpdates[n].ok}) = 1
        /\ Len(callbacks[race.kid]) <= 1

\* The race is over and both paths called update_status: the poll cycle's call
\* unregistered and kill_session's found the session absent.
C6_Witness ==
    /\ RaceOver
    /\ Len(RaceUpdates) = 2
    /\ RaceUpdates[1].by = "poll" /\ RaceUpdates[1].ok
    /\ RaceUpdates[2].by = "kill" /\ ~RaceUpdates[2].ok


\* C33: kill_session sends SIGKILL only from its proc.kill() statement, to the
\* process it already sent SIGTERM and that is still alive; it comes to that
\* statement only from a proc.wait(timeout) that ended with the process alive,
\* so a process that exited within the timeout gets no SIGKILL.
C33_ForceKillOnlyAfterTimeout ==
    [][/\ \A e \in signalled' \ signalled :
             e.sig = "SIGKILL" =>
                 /\ race.kpc = "kill" /\ e.proc = race.kproc
                 /\ [proc |-> e.proc, sig |-> "SIGTERM"] \in signalled
                 /\ ~exited(World, e.proc)
       /\ race'.kpc = "kill" /\ race.kpc # "kill" =>
             /\ race.kpc = "wait"
             /\ ~exited(World, race.kproc)
             /\ [proc |-> race.kproc, sig |-> "SIGTERM"] \in signalled
       /\ race.kpc = "wait" /\ exited(World, race.kproc) => race'.kpc # "kill"]_vars

\* kill_session has sent SIGTERM, waited out the timeout and sent SIGKILL.
C33_Witness ==
    /\ race.kpc = "wait1"
    /\ [proc |-> race.kproc, sig |-> "SIGTERM"] \in signalled
    /\ [proc |-> race.kproc, sig |-> "SIGKILL"] \in signalled

\* C36: however the poll cycles interleave with a kill_session, a
\* detach_session or an untrack_process of a session, on_termination is called
\* at most once for each session.
C36_CallbackAtMostOncePerSession ==
    \A sid \in Ids : Len(callbacks[sid]) <= 1

\* detach_session of the last session returned true, the poll cycle that had
\* its handle already saw the process exit and called on_termination once, and
\* a later cycle is under way.
C36_Witness ==
    /\ race.kid = MaxId
    /\ race.kpc = "done" /\ race.kres = "true" /\ ~race.ksaw
    /\ race.kid \in race.pseen
    /\ Len(callbacks[race.kid]) = 1
    /\ race.ppc = "get"

====
